---- MODULE Spec2Model ----
(***************************************************************************)
(* A model of the myuucc compiler front end.                               *)
(*                                                                         *)
(*   Spec     the driver (main.go) running the recursive-descent parser of *)
(*            package parse (unnamed/part_001) over a token stream.  The   *)
(*            statement lists are a step machine: one action per loop      *)
(*            iteration of localStmtList/topLevelStmtList, with the open   *)
(*            blocks kept on an explicit stack; expressions, types and     *)
(*            declarations are operators over the parser state record.     *)
(*   SpecLex  the tokenizer of parse.go, one action per loop iteration of  *)
(*            tokenize, over source texts given as sequences of            *)
(*            characters.                                                  *)
(***************************************************************************)
EXTENDS Integers, Sequences, FiniteSets, TLC

VARIABLES
    stage,      \* where main is: "start", "parse", "returned", "emitted", "done", "exit"
    tokens,     \* Tokenizer: the token stream, EOF token last
    pos,        \* Tokenizer: the cursor, an index into tokens
    envs,       \* every Environment created so far; envs[i].parent links them
    Env,        \* the active Environment, an index into envs
    functions,  \* the function table: name -> signature
    stack,      \* the statement lists being parsed, innermost last
    code,       \* Env.program.Code
    diag,       \* the diagnostic that ended the process, "" when none
    errorRest,  \* errorAt: the suffix of the source it was handed, NoRest when none
    out,        \* the lines written to standard output
    userInput,  \* the source text
    input,      \* parse.go tokenize: the text not yet tokenized
    toks,       \* parse.go tokenize: the tokens produced so far
    lexState,   \* parse.go tokenize: "idle", "run", "done", "error"
    mainTokens, \* parse.go: tokens, the tokens from the current one on
    locals,     \* parse.go: the local variables found so far
    mainCode,   \* parse.go: code, the statements of the program
    mainStage,  \* parse.go program: "idle", "program", "returned", "exit"
    errorAtRest, \* errorAt of package parse: its argument rest
    stderr,     \* errorAt of package parse: what it wrote to standard error
    exitStatus, \* errorAt of package parse: the exit status, 0 while the process runs
    errorStage  \* errorAt of package parse: "idle", "called", "exit"

vars == <<stage, tokens, pos, envs, Env, functions, stack, code, diag, errorRest, out,
          userInput, input, toks, lexState, mainTokens, locals, mainCode, mainStage,
          errorAtRest, stderr, exitStatus, errorStage>>

parserVars == <<stage, tokens, pos, envs, Env, functions, stack, code, diag, errorRest, out>>
lexVars == <<userInput, input, toks, lexState>>
mainVars == <<mainTokens, locals, mainCode, mainStage>>
errorVars == <<errorAtRest, stderr, exitStatus, errorStage>>

(***************************************************************************)
(* Tokens of package parse.  The kind of a symbol or keyword token is its  *)
(* text; rest is the index of the token, standing for the suffix of the    *)
(* source that starts at it.                                               *)
(***************************************************************************)
K(k) == [kind |-> k, str |-> k, val |-> 0]
Id(s) == [kind |-> "IDENTIFIER", str |-> s, val |-> 0]
Num(n) == [kind |-> "NUMBER", str |-> ToString(n), val |-> n]
Str(s) == [kind |-> "STRING", str |-> s, val |-> 0]
EofToken == [kind |-> "EOF", str |-> "", val |-> 0]

\* Diagnostics (the message handed to errorAt or Alarm).
DiagEndLine == "not a statement terminator"
DiagNotIdentifier == "not an identifier"
DiagNotNumber == "not a number"
DiagNotType == "not a type"
DiagSeparator == "statement separator required"
DiagTopIf == "if statement not allowed at top level"
DiagTopFor == "for statement not allowed at top level"
DiagTopReturn == "return statement not allowed at top level"
DiagForCondition == "for condition is not an expression"
DiagUndefined == "undefined variable"
DiagDefined == "variable already defined"
DiagPanic == "panic: index out of range"
DiagExpect(kind) == "expected token " \o kind

(***************************************************************************)
(* The parser state threaded through the parsing operators: the cursor,    *)
(* the environments and the function table, and whether the process has    *)
(* exited with a diagnostic.                                               *)
(***************************************************************************)
Halt(ps, message) ==
    IF ps.halted THEN ps ELSE [ps EXCEPT !.halted = TRUE, !.diag = message]

\* A suffix of the source is the index of the token it starts at; the empty
\* suffix starts after the last token.  NoRest: errorAt was not called.
NoRest == 0
EmptyRest == Len(tokens) + 1

\* errorAt: report at rest and os.Exit(1); nothing runs after it.
errorAt(ps, at, message) ==
    IF ps.halted THEN ps ELSE [Halt(ps, message) EXCEPT !.rest = at]

\* util.Alarm: report and exit.
Alarm(ps, message) == Halt(ps, message)

\* Fetch: the token under the cursor, with the suffix that starts at it
Fetch(ps) ==
    [kind |-> tokens[ps.pos].kind, str |-> tokens[ps.pos].str,
     val |-> tokens[ps.pos].val, rest |-> ps.pos]

Test(ps, kind) == Fetch(ps).kind = kind

Succ(ps) == [ps EXCEPT !.pos = @ + 1]

\* Prefetch(n): the token n places after the cursor; indexing past the end
\* of the stream ends the process.
PrefetchOk(ps, n) == ps.pos + n <= Len(tokens)
Prefetch(ps, n) == tokens[ps.pos + n]

\* Consume(kind): [ok, ps]
Consume(ps, kind) ==
    IF ~ps.halted /\ Test(ps, kind)
    THEN [ok |-> TRUE, ps |-> Succ(ps)]
    ELSE [ok |-> FALSE, ps |-> ps]

Expect(ps, kind) ==
    IF ps.halted THEN ps
    ELSE IF Test(ps, kind) THEN Succ(ps)
    ELSE errorAt(ps, Fetch(ps).rest, DiagExpect(kind))

consumeEndLine(ps) ==
    LET a == Consume(ps, ";")
    IN  IF a.ok THEN a ELSE Consume(ps, "\n")

expectEndLine(ps) ==
    LET c == consumeEndLine(ps)
    IN  IF ps.halted THEN ps
        ELSE IF c.ok THEN c.ps ELSE Alarm(ps, DiagEndLine)

\* consumeIdentifier: [ok, ps, tok]; the token returned on failure is Token{}
consumeIdentifier(ps) ==
    IF ~ps.halted /\ Test(ps, "IDENTIFIER")
    THEN [ok |-> TRUE, ps |-> Succ(ps), tok |-> Fetch(ps)]
    ELSE [ok |-> FALSE, ps |-> ps,
          tok |-> [kind |-> "", str |-> "", val |-> 0, rest |-> EmptyRest]]

\* expectIdentifier: [ps, tok]
expectIdentifier(ps) ==
    LET c == consumeIdentifier(ps)
    IN  IF ps.halted THEN [ps |-> ps, tok |-> c.tok]
        ELSE IF c.ok THEN [ps |-> c.ps, tok |-> c.tok]
        ELSE [ps |-> errorAt(ps, c.tok.rest, DiagNotIdentifier), tok |-> c.tok]

\* expectNumber: [ps, val]
expectNumber(ps) ==
    IF ps.halted THEN [ps |-> ps, val |-> 0]
    ELSE IF ~Test(ps, "NUMBER")
    THEN [ps |-> errorAt(ps, Fetch(ps).rest, DiagNotNumber), val |-> 0]
    ELSE [ps |-> Succ(ps), val |-> Fetch(ps).val]

atEof(ps) == Test(ps, "EOF")

(***************************************************************************)
(* Types (package lang).                                                   *)
(***************************************************************************)
NewType(kind) == [kind |-> kind, of |-> <<>>, size |-> 0]
ZeroType == NewType("")
NewPointerType(ty) == [kind |-> "PTR", of |-> <<ty>>, size |-> 0]
NewArrayType(ty, n) == [kind |-> "ARRAY", of |-> <<ty>>, size |-> n]
NewMultipleType(types) == [kind |-> "MULTI", of |-> types, size |-> 0]

(***************************************************************************)
(* Environments.  A Variable pointer is the pair of the environment that   *)
(* holds the variable and its name; NilVar is the nil pointer.             *)
(***************************************************************************)
RootEnv == 1
NilVar == [env |-> 0, name |-> ""]

NewEnvironment == [parent |-> 0, FunctionName |-> "", vars |-> <<>>]

HasVar(e, name) == \E i \in 1..Len(e.vars) : e.vars[i].name = name

\* Fork: a child of the active environment, in the same function
Fork(ps) ==
    [ps EXCEPT !.envs = Append(@,
        [parent |-> ps.Env, FunctionName |-> ps.envs[ps.Env].FunctionName,
         vars |-> <<>>])]

FindLocalVar(ps, name) ==
    IF HasVar(ps.envs[ps.Env], name) THEN [env |-> ps.Env, name |-> name]
    ELSE NilVar

RECURSIVE FindVarFrom(_, _, _)
FindVarFrom(ps, e, name) ==
    IF e = 0 THEN NilVar
    ELSE IF HasVar(ps.envs[e], name) THEN [env |-> e, name |-> name]
    ELSE FindVarFrom(ps, ps.envs[e].parent, name)

FindVar(ps, name) == FindVarFrom(ps, ps.Env, name)

AddLocalVar(ps, name) ==
    [ps EXCEPT !.envs[ps.Env].vars = Append(@, [name |-> name, type |-> ZeroType])]

FindTopLevelVar(ps, name) ==
    IF HasVar(ps.envs[RootEnv], name) THEN [env |-> RootEnv, name |-> name]
    ELSE NilVar

AddTopLevelVar(ps, name) ==
    [ps EXCEPT !.envs[RootEnv].vars = Append(@, [name |-> name, type |-> ZeroType])]

\* v.Variable.Type = ty, through the pointer
SetVarType(ps, v, ty) ==
    [ps EXCEPT !.envs[v.env].vars =
        [i \in 1..Len(@) |-> IF @[i].name = v.name THEN [@[i] EXCEPT !.type = ty] ELSE @[i]]]

\* RegisterFunc: the entry of name in the function table, created empty
RegisterFunc(ps, name) ==
    [ps EXCEPT !.functions =
        (name :> [ParameterTypes |-> <<>>, ReturnValueType |-> ZeroType]) @@ @]

stepIn(ps) == [Fork(ps) EXCEPT !.Env = Len(ps.envs) + 1]

stepInFunction(ps, name) ==
    LET f == Fork(ps)
        e == Len(ps.envs) + 1
    IN  [f EXCEPT !.Env = e, !.envs[e].FunctionName = name]

\* stepOut that leaves the active environment where it is
stepOut_Stay(ps) == ps

stepOut(ps) == [ps EXCEPT !.Env = ps.envs[ps.Env].parent]

(***************************************************************************)
(* AST nodes.  Env is the environment active when the node was created;    *)
(* from is the index of the first token of a statement.                    *)
(***************************************************************************)
NewNode(ps, kind, children) ==
    [Kind |-> kind, Children |-> children, Label |-> "", Var |-> NilVar,
     Val |-> 0, Env |-> ps.Env, from |-> 0]

NilNode ==
    [Kind |-> "nil", Children |-> <<>>, Label |-> "", Var |-> NilVar,
     Val |-> 0, Env |-> 0, from |-> 0]

NewBinaryNode(ps, kind, lhs, rhs) == NewNode(ps, kind, <<lhs, rhs>>)

NewLeafNode(ps, kind) == NewNode(ps, kind, <<>>)

NewNodeNum(ps, val) == [NewNode(ps, "NUM", <<>>) EXCEPT !.Val = val]

R(ps, node) == [ps |-> ps, node |-> node]

(***************************************************************************)
(* Types in the token stream: consumeType returns [ps, ty, ok].            *)
(***************************************************************************)
RECURSIVE consumeType(_)

T(ps, ty, ok) == [ps |-> ps, ty |-> ty, ok |-> ok]

expectType(ps) ==
    LET then(c) ==
            IF c.ps.halted \/ c.ok THEN [ps |-> c.ps, ty |-> c.ty]
            ELSE [ps |-> Alarm(c.ps, DiagNotType), ty |-> c.ty]
    IN  then(consumeType(ps))

consumeType(ps) ==
    LET pointer(t) == T(t.ps, NewPointerType(t.ty), TRUE)
        array(n) ==
            LET then(t) == T(t.ps, NewArrayType(t.ty, n.val), TRUE)
            IN  then(expectType(Expect(n.ps, "]")))
        named(c) ==
            IF ~c.ok THEN T(ps, ZeroType, FALSE)
            ELSE IF c.tok.str = "int" THEN T(c.ps, NewType("INT"), TRUE)
            ELSE IF c.tok.str = "rune" THEN T(c.ps, NewType("RUNE"), TRUE)
            ELSE IF c.tok.str = "string" THEN T(c.ps, NewPointerType(NewType("RUNE")), TRUE)
            ELSE T(c.ps, ZeroType, TRUE)
    IN  IF ps.halted THEN T(ps, ZeroType, FALSE)
        ELSE IF Test(ps, "*") THEN pointer(expectType(Succ(ps)))
        ELSE IF Test(ps, "[") THEN array(expectNumber(Succ(ps)))
        ELSE named(consumeIdentifier(ps))

(***************************************************************************)
(* Declarations and variable references.  Every parsing operator from here *)
(* on returns [ps, node].                                                  *)
(***************************************************************************)
\* variableRef that accepts a name FindVar does not find
variableRef_Unchecked(ps) ==
    LET then(t) ==
            LET v == FindVar(t.ps, t.tok.str)
                node == [NewLeafNode(t.ps, "VARIABLE") EXCEPT !.Var = v, !.from = ps.pos]
            IN  IF t.ps.halted THEN R(t.ps, NilNode) ELSE R(t.ps, node)
    IN  then(expectIdentifier(ps))

variableRef(ps) ==
    LET then(t) ==
            LET v == FindVar(t.ps, t.tok.str)
                node == [NewLeafNode(t.ps, "VARIABLE") EXCEPT !.Var = v, !.from = ps.pos]
            IN  IF t.ps.halted THEN R(t.ps, NilNode)
                ELSE IF v = NilVar THEN R(errorAt(t.ps, t.tok.rest, DiagUndefined), node)
                ELSE R(t.ps, node)
    IN  then(expectIdentifier(ps))

\* localVariableDeclaration that looks the name up in the enclosing scopes too
localVariableDeclaration_AnyScope(ps) ==
    LET then(t) ==
            IF t.ps.halted THEN R(t.ps, NilNode)
            ELSE IF FindVar(t.ps, t.tok.str) # NilVar
            THEN R(errorAt(t.ps, t.tok.rest, DiagDefined), NilNode)
            ELSE R(AddLocalVar(t.ps, t.tok.str),
                   [NewLeafNode(t.ps, "VARIABLE") EXCEPT
                      !.Var = [env |-> t.ps.Env, name |-> t.tok.str], !.from = ps.pos])
    IN  then(expectIdentifier(ps))

localVariableDeclaration(ps) ==
    LET then(t) ==
            IF t.ps.halted THEN R(t.ps, NilNode)
            ELSE IF FindLocalVar(t.ps, t.tok.str) # NilVar
            THEN R(errorAt(t.ps, t.tok.rest, DiagDefined), NilNode)
            ELSE R(AddLocalVar(t.ps, t.tok.str),
                   [NewLeafNode(t.ps, "VARIABLE") EXCEPT
                      !.Var = [env |-> t.ps.Env, name |-> t.tok.str], !.from = ps.pos])
    IN  then(expectIdentifier(ps))

topLevelVariableDeclaration(ps) ==
    LET then(t) ==
            IF t.ps.halted THEN R(t.ps, NilNode)
            ELSE IF FindTopLevelVar(t.ps, t.tok.str) # NilVar
            THEN R(errorAt(t.ps, t.tok.rest, DiagDefined), NilNode)
            ELSE R(AddTopLevelVar(t.ps, t.tok.str),
                   [NewLeafNode(t.ps, "VARIABLE") EXCEPT
                      !.Var = [env |-> RootEnv, name |-> t.tok.str], !.from = ps.pos])
    IN  then(expectIdentifier(ps))

(***************************************************************************)
(* Expressions.                                                            *)
(***************************************************************************)
RECURSIVE expr(_), equalityLoop(_, _, _), relationalLoop(_, _, _), addLoop(_, _, _),
          mulLoop(_, _, _), unary(_), primary(_), callArguments(_, _)

\* the node of one more operand in a loop of binary operators: the operand
\* itself first, then kind applied to the node so far and the operand
Operand(r, lhs, kind) ==
    IF kind = "" THEN r.node ELSE NewBinaryNode(r.ps, kind, lhs, r.node)

\* mul: unary (("*" | "/") unary)*; the loop parses the next operand and then
\* looks for the next operator
mulLoop(ps, lhs, kind) ==
    LET then(r) ==
            IF ~r.ps.halted /\ Test(r.ps, "*")
            THEN mulLoop(Succ(r.ps), Operand(r, lhs, kind), "MUL")
            ELSE IF ~r.ps.halted /\ Test(r.ps, "/")
            THEN mulLoop(Succ(r.ps), Operand(r, lhs, kind), "DIV")
            ELSE R(r.ps, Operand(r, lhs, kind))
    IN  then(unary(ps))

mul(ps) == mulLoop(ps, NilNode, "")

addLoop(ps, lhs, kind) ==
    LET then(r) ==
            IF ~r.ps.halted /\ Test(r.ps, "+")
            THEN addLoop(Succ(r.ps), Operand(r, lhs, kind), "ADD")
            ELSE IF ~r.ps.halted /\ Test(r.ps, "-")
            THEN addLoop(Succ(r.ps), Operand(r, lhs, kind), "SUB")
            ELSE R(r.ps, Operand(r, lhs, kind))
    IN  then(mul(ps))

add(ps) == addLoop(ps, NilNode, "")

relationalLoop(ps, lhs, kind) ==
    LET then(r) ==
            IF ~r.ps.halted /\ Test(r.ps, "<")
            THEN relationalLoop(Succ(r.ps), Operand(r, lhs, kind), "LESS")
            ELSE IF ~r.ps.halted /\ Test(r.ps, "<=")
            THEN relationalLoop(Succ(r.ps), Operand(r, lhs, kind), "LESS EQL")
            ELSE IF ~r.ps.halted /\ Test(r.ps, ">")
            THEN relationalLoop(Succ(r.ps), Operand(r, lhs, kind), "GREATER")
            ELSE IF ~r.ps.halted /\ Test(r.ps, ">=")
            THEN relationalLoop(Succ(r.ps), Operand(r, lhs, kind), "GREATER EQL")
            ELSE R(r.ps, Operand(r, lhs, kind))
    IN  then(add(ps))

relational(ps) == relationalLoop(ps, NilNode, "")

equalityLoop(ps, lhs, kind) ==
    LET then(r) ==
            IF ~r.ps.halted /\ Test(r.ps, "==")
            THEN equalityLoop(Succ(r.ps), Operand(r, lhs, kind), "EQL")
            ELSE IF ~r.ps.halted /\ Test(r.ps, "!=")
            THEN equalityLoop(Succ(r.ps), Operand(r, lhs, kind), "NOT EQL")
            ELSE R(r.ps, Operand(r, lhs, kind))
    IN  then(relational(ps))

equality(ps) == equalityLoop(ps, NilNode, "")

expr(ps) == equality(ps)

unary(ps) ==
    LET minus(r) == R(r.ps, NewBinaryNode(r.ps, "SUB", NewNodeNum(r.ps, 0), r.node))
        deref(r) == R(r.ps, NewNode(r.ps, "DEREF", <<r.node>>))
        addr(r) == R(r.ps, NewNode(r.ps, "ADDR", <<r.node>>))
    IN  IF ps.halted THEN R(ps, NilNode)
        ELSE IF Test(ps, "-") THEN minus(primary(Succ(ps)))
        ELSE IF Test(ps, "*") THEN deref(unary(Succ(ps)))
        ELSE IF Test(ps, "&") THEN addr(unary(Succ(ps)))
        ELSE primary(IF Test(ps, "+") THEN Succ(ps) ELSE ps)

\* the argument loop of a function call
callArguments(ps, node) ==
    LET then(e) == callArguments(e.ps, [node EXCEPT !.Children = Append(@, e.node)])
    IN  IF ps.halted THEN R(ps, node)
        ELSE IF Test(ps, ")") THEN R(Succ(ps), node)
        ELSE then(expr(IF Len(node.Children) > 0 THEN Expect(ps, ",") ELSE ps))

primary(ps) ==
    LET paren(e) == R(Expect(e.ps, ")"), e.node)
        number(n) == R(n.ps, NewNodeNum(n.ps, n.val))
        call(t) ==
            callArguments(Expect(t.ps, "("),
                [NewNode(t.ps, "FUNCTION CALL", <<>>) EXCEPT !.Label = t.tok.str])
        index(arr) ==
            LET then(i) ==
                    R(Expect(i.ps, "]"), NewBinaryNode(i.ps, "INDEX", arr.node, i.node))
            IN  then(expr(Expect(arr.ps, "[")))
    IN  IF ps.halted THEN R(ps, NilNode)
        ELSE IF Test(ps, "(") THEN paren(expr(Succ(ps)))
        ELSE IF Test(ps, "NUMBER") THEN number(expectNumber(ps))
        ELSE IF Test(ps, "STRING")
        THEN R(Succ(ps), [NewLeafNode(ps, "STRING") EXCEPT !.Label = Fetch(ps).str])
        ELSE IF ~PrefetchOk(ps, 1) THEN R(Halt(ps, DiagPanic), NilNode)
        ELSE IF Prefetch(ps, 1).kind = "(" THEN call(expectIdentifier(ps))
        ELSE IF Prefetch(ps, 1).kind = "[" THEN index(variableRef(ps))
        ELSE variableRef(ps)

RECURSIVE exprListLoop(_, _)
exprListLoop(ps, exprs) ==
    LET then(e) ==
            IF ~e.ps.halted /\ Test(e.ps, ",")
            THEN exprListLoop(Succ(e.ps), Append(exprs, e.node))
            ELSE R(e.ps, NewNode(e.ps, "EXPR LIST", Append(exprs, e.node)))
    IN  then(expr(ps))

exprList(ps) == exprListLoop(ps, <<>>)

RECURSIVE localVarListLoop(_, _)
localVarListLoop(ps, lvars) ==
    LET then(d) ==
            IF ~d.ps.halted /\ Test(d.ps, ",")
            THEN localVarListLoop(Succ(d.ps), Append(lvars, d.node))
            ELSE R(d.ps, NewNode(d.ps, "LOCAL VAR LIST", Append(lvars, d.node)))
    IN  then(localVariableDeclaration(ps))

localVarList(ps) == localVarListLoop(ps, <<>>)

(***************************************************************************)
(* Statements that hold no block.                                          *)
(***************************************************************************)
packageStmt(ps) ==
    LET then(t) == R(t.ps, [NewLeafNode(ps, "PACKAGE STMT") EXCEPT !.Label = t.tok.str])
    IN  then(expectIdentifier(Expect(ps, "package")))

\* the lookahead of simpleStmt from the k-th token after the cursor: which
\* form the statement is parsed as
\* the lookahead that also stops in front of a block
RECURSIVE scanStmt_ToBlock(_, _)
scanStmt_ToBlock(ps, k) ==
    IF ~PrefetchOk(ps, k) THEN "panic"
    ELSE IF Prefetch(ps, k).kind \in {"\n", ";", "{"} THEN "expr"
    ELSE IF Prefetch(ps, k).kind = "=" THEN "assign"
    ELSE IF Prefetch(ps, k).kind = ":=" THEN "short"
    ELSE scanStmt_ToBlock(ps, k + 1)

RECURSIVE scanStmt(_, _)
scanStmt(ps, k) ==
    IF ~PrefetchOk(ps, k) THEN "panic"
    ELSE IF Prefetch(ps, k).kind \in {"\n", ";"} THEN "expr"
    ELSE IF Prefetch(ps, k).kind = "=" THEN "assign"
    ELSE IF Prefetch(ps, k).kind = ":=" THEN "short"
    ELSE scanStmt(ps, k + 1)

\* a statement kind(n, exprList()) whose right side follows the token op
binaryStmt(n, op, kind) ==
    LET then(e) == R(e.ps, NewBinaryNode(e.ps, kind, n.node, e.node))
    IN  then(exprList(Expect(n.ps, op)))

exprStmt(e) == R(e.ps, NewNode(e.ps, "EXPR STMT", <<e.node>>))

simpleStmt(ps) ==
    LET parse(form) ==
            IF form = "panic" THEN R(Halt(ps, DiagPanic), NilNode)
            ELSE IF form = "assign" THEN binaryStmt(exprList(ps), "=", "ASSIGN")
            ELSE IF form = "short"
            THEN binaryStmt(localVarList(ps), ":=", "SHORT VAR DECL STMT")
            ELSE exprStmt(expr(ps))
    IN  IF ps.halted THEN R(ps, NilNode)
        ELSE IF Test(ps, "\n") \/ Test(ps, ";") THEN R(ps, NilNode)
        ELSE parse(scanStmt(ps, 0))

\* a var statement whose variable is in scope only after its initializer
initialized_DeclaredAfter(ps, v) ==
    LET scope == ps.envs[ps.Env].vars
        before == [ps EXCEPT !.envs[ps.Env].vars = SubSeq(scope, 1, Len(scope) - 1)]
        then(e) ==
            R([e.ps EXCEPT !.envs[ps.Env].vars = Append(@, scope[Len(scope)])],
              NewBinaryNode(e.ps, "LOCAL VAR STMT", v.node, e.node))
    IN  IF ps.halted THEN R(ps, NilNode) ELSE then(expr(before))

\* a var statement with the initializer that follows the cursor
initialized(ps, v) ==
    LET then(e) == R(e.ps, NewBinaryNode(e.ps, "LOCAL VAR STMT", v.node, e.node))
    IN  then(expr(ps))

localVarStmt(ps) ==
    LET typed(v, t) ==
            IF t.ps.halted THEN R(t.ps, NilNode)
            ELSE IF ~t.ok THEN initialized(Expect(t.ps, "="), v)
            ELSE IF Test(t.ps, "=")
            THEN initialized(Succ(SetVarType(t.ps, v.node.Var, t.ty)), v)
            ELSE R(SetVarType(t.ps, v.node.Var, t.ty),
                   NewNode(t.ps, "LOCAL VAR STMT", <<v.node>>))
        declared(v) ==
            IF v.ps.halted THEN R(v.ps, NilNode) ELSE typed(v, consumeType(v.ps))
    IN  declared(localVariableDeclaration(Expect(ps, "var")))

topLevelVarStmt(ps) ==
    LET typed(v, t) ==
            IF t.ps.halted THEN R(t.ps, NilNode)
            ELSE R(SetVarType(t.ps, v.node.Var, t.ty),
                   NewNode(t.ps, "TOPLEVEL VAR STMT", <<v.node>>))
        declared(v) == typed(v, expectType(v.ps))
    IN  declared(topLevelVariableDeclaration(Expect(ps, "var")))

returnStmt(e) == R(e.ps, NewNode(e.ps, "RETURN", <<e.node>>))

\* localStmt, for a statement that is no if and no for
localStmt(ps) ==
    IF Test(ps, "var") THEN localVarStmt(ps)
    ELSE IF Test(ps, "return") THEN
        IF Test(Succ(ps), "\n") \/ Test(Succ(ps), ";")
        THEN R(Succ(ps), NewLeafNode(ps, "RETURN"))
        ELSE returnStmt(exprList(Succ(ps)))
    ELSE simpleStmt(ps)

\* topLevelStmt, for a statement that is no function definition
topLevelStmt(ps) ==
    LET assigned(n, e) == R(e.ps, NewBinaryNode(e.ps, "ASSIGN", n.node, e.node))
        then(n) ==
            IF ~n.ps.halted /\ Test(n.ps, "=") THEN assigned(n, expr(Succ(n.ps)))
            ELSE exprStmt(n)
    IN  IF Test(ps, "var") THEN topLevelVarStmt(ps)
        ELSE IF Test(ps, "if") THEN R(Alarm(ps, DiagTopIf), NilNode)
        ELSE IF Test(ps, "for") THEN R(Alarm(ps, DiagTopFor), NilNode)
        ELSE IF Test(ps, "return") THEN R(Alarm(ps, DiagTopReturn), NilNode)
        ELSE then(expr(ps))

(***************************************************************************)
(* Statements that hold a block: the part before the call of               *)
(* localStmtList.  Each returns [ps, node, aux].                           *)
(***************************************************************************)
H(ps, node, aux) == [ps |-> ps, node |-> node, aux |-> aux]

\* funcDefinition: the loop over the parameters; returns [ps, parameters]
RECURSIVE parameterLoop(_, _, _)
parameterLoop(ps, name, parameters) ==
    LET typed(lvarNode, t) ==
            IF t.ps.halted THEN [ps |-> t.ps, parameters |-> parameters]
            ELSE parameterLoop(
                    [SetVarType(t.ps, lvarNode.node.Var, t.ty) EXCEPT
                        !.functions[name].ParameterTypes = Append(@, t.ty)],
                    name, Append(parameters, lvarNode.node))
        declared(lvarNode) == typed(lvarNode, expectType(lvarNode.ps))
    IN  IF ps.halted THEN [ps |-> ps, parameters |-> parameters]
        ELSE IF Test(ps, ")") THEN [ps |-> Succ(ps), parameters |-> parameters]
        ELSE declared(localVariableDeclaration(
                IF Len(parameters) > 0 THEN Expect(ps, ",") ELSE ps))

\* funcDefinition: the loop over the types of a multiple return value;
\* returns [ps, types]
RECURSIVE returnTypeLoop(_, _)
returnTypeLoop(ps, types) ==
    LET then(t) ==
            IF ~t.ps.halted /\ Test(t.ps, ",")
            THEN returnTypeLoop(Succ(t.ps), Append(types, t.ty))
            ELSE [ps |-> t.ps, types |-> Append(types, t.ty)]
    IN  then(expectType(ps))

\* returnValueType that keeps the first type of a parenthesised list only
returnValueType_First(ps, name) ==
    LET void == [ps EXCEPT !.functions[name].ReturnValueType = NewType("VOID")]
        multiple(l) ==
            IF Expect(l.ps, ")").halted THEN Expect(l.ps, ")")
            ELSE [Expect(l.ps, ")") EXCEPT !.functions[name].ReturnValueType = l.types[1]]
        single(t) ==
            IF ~t.ps.halted /\ t.ok
            THEN [t.ps EXCEPT !.functions[name].ReturnValueType = t.ty]
            ELSE t.ps
    IN  IF ps.halted THEN ps
        ELSE IF Test(ps, "(") THEN multiple(returnTypeLoop(Succ(void), <<>>))
        ELSE single(consumeType(void))

\* funcDefinition: the return value type, from the end of the parameters
returnValueType(ps, name) ==
    LET void == [ps EXCEPT !.functions[name].ReturnValueType = NewType("VOID")]
        multiple(l) ==
            IF Expect(l.ps, ")").halted THEN Expect(l.ps, ")")
            ELSE [Expect(l.ps, ")") EXCEPT
                    !.functions[name].ReturnValueType = NewMultipleType(l.types)]
        single(t) ==
            IF ~t.ps.halted /\ t.ok
            THEN [t.ps EXCEPT !.functions[name].ReturnValueType = t.ty]
            ELSE t.ps
    IN  IF ps.halted THEN ps
        ELSE IF Test(ps, "(") THEN multiple(returnTypeLoop(Succ(void), <<>>))
        ELSE single(consumeType(void))

\* funcDefinition, to the opening brace; aux is the parameter nodes
funcDefinition(ps) ==
    LET opened(open, name, p) ==
            H(open, [NewNode(open, "FUNCTION DEF", <<>>) EXCEPT !.Label = name],
              p.parameters)
        parameters(name, p) ==
            opened(Expect(returnValueType(p.ps, name), "{"), name, p)
        named(identifier) ==
            IF identifier.ps.halted THEN H(identifier.ps, NilNode, <<>>)
            ELSE parameters(identifier.tok.str,
                    parameterLoop(
                        Expect(RegisterFunc(
                                 stepInFunction(identifier.ps, identifier.tok.str),
                                 identifier.tok.str), "("),
                        identifier.tok.str, <<>>))
    IN  named(expectIdentifier(Expect(ps, "func")))

\* forStmt, to the opening brace of the body; the node has the children
\* [init, condition, update, body], body still nil
forStmt(ps) ==
    LET node(q) == NewNode(q, "FOR", <<NilNode, NilNode, NilNode, NilNode>>)
        updated(s, cond, update) ==
            H(Expect(update.ps, "{"),
              [node(s.ps) EXCEPT !.Children[1] = s.node, !.Children[2] = cond.node,
                                 !.Children[3] = update.node], <<>>)
        conditioned(s, cond) == updated(s, cond, simpleStmt(Expect(cond.ps, ";")))
        then(s) ==
            IF s.ps.halted THEN H(s.ps, node(s.ps), <<>>)
            ELSE IF Test(s.ps, "{") THEN
                IF s.node.Kind # "EXPR STMT"
                THEN H(Alarm(Succ(s.ps), DiagForCondition), node(s.ps), <<>>)
                ELSE H(Succ(s.ps), [node(s.ps) EXCEPT !.Children[2] = s.node.Children[1]],
                       <<>>)
            ELSE conditioned(s, expr(Expect(s.ps, ";")))
        inside(q) ==
            IF q.halted THEN H(q, node(q), <<>>)
            ELSE IF Test(q, "{") THEN H(Succ(q), node(q), <<>>)
            ELSE then(simpleStmt(q))
    IN  inside(Expect(stepIn(ps), "for"))

\* ifStmt, to the opening brace; the node is the condition
ifStmt(ps) ==
    LET then(lhs) == H(Expect(lhs.ps, "{"), lhs.node, <<>>)
    IN  then(expr(Expect(stepIn(ps), "if")))

\* elseStmt, to the opening brace
elseStmt(ps) == Expect(Expect(stepIn(ps), "else"), "{")

(***************************************************************************)
(* Source programs, as token streams.                                      *)
(***************************************************************************)
NL == K("\n")
Semi == K(";")
Header == <<K("package"), Id("p"), NL>>

\* the most statements in the block of a nested statement
MaxInner == 2

SeqsUpTo(S, n) == UNION {[1..k -> S] : k \in 0..n}

\* the token streams of ss, each followed by sep
RECURSIVE Lines(_, _)
Lines(ss, sep) ==
    IF ss = <<>> THEN <<>> ELSE Head(ss) \o sep \o Lines(Tail(ss), sep)

VarA == <<K("var"), Id("a"), Id("int")>>
VarB == <<K("var"), Id("b"), Id("int")>>
RefA == <<Id("a")>>
RefB == <<Id("b")>>
ShortA == <<Id("a"), K(":="), Num(1)>>
AssignA == <<Id("a"), K("="), Num(1)>>
One == <<Num(1)>>

Program(top) == Header \o top \o <<EofToken>>

\* func f(<params>) <results> { body }
Func(name, params, results, body) ==
    <<K("func"), Id(name), K("(")>> \o params \o <<K(")")>> \o results
        \o <<K("{"), NL>> \o body \o <<K("}"), NL>>

\* a statement holding the block { body }, by its kind
Block(kind, body) ==
    LET b == <<K("{"), NL>> \o body \o <<K("}")>>
    IN  CASE kind = "if" -> <<K("if"), Num(1)>> \o b
          [] kind = "else" -> <<K("if"), Num(1), K("{"), K("}"), K("else")>> \o b
          [] kind = "for" -> <<K("for")>> \o b
          [] kind = "while" -> <<K("for"), Num(1)>> \o b
          [] kind = "for3" ->
                <<K("for"), Id("a"), K(":="), Num(0), Semi, Id("a"), K("<"), Num(1), Semi,
                  Id("a"), K("="), Id("a"), K("+"), Num(1)>> \o b

BlockKinds == {"if", "else", "for", "while", "for3"}

\* Scoping: declarations and references before, inside and after a nested
\* block, in a function with or without the parameter a
ScopeSources ==
    { Program(Func("f", params, <<>>, Lines(<<pre, mid, post>>, <<NL>>))) :
        params \in {<<>>, <<Id("a"), Id("int")>>},
        pre \in {<<>>, VarA, RefA},
        mid \in {<<>>} \cup
                { Block(kind, Lines(inner, <<NL>>)) :
                    kind \in BlockKinds, inner \in SeqsUpTo({VarA, RefA, ShortA}, MaxInner) },
        post \in {<<>>, VarA, RefA} }

ParamA == <<Id("a"), Id("int")>>
Separators == {<<>>, <<Semi>>, <<NL>>}

\* Separators: two statements of one list with a terminator between them or
\* none, and a terminator or none before the end of the list
LocalSeparatorSources ==
    { Program(Func("f", ParamA, <<>>, s1 \o sep1 \o s2 \o sep2)) :
        s1 \in {RefA, AssignA, VarB, Block("if", <<>>), Block("for", <<>>)},
        sep1 \in Separators,
        s2 \in {<<>>, RefA, VarB, <<K("return")>>, Block("if", <<>>)},
        sep2 \in Separators }

EmptyFunc(name) == <<K("func"), Id(name), K("("), K(")"), K("{"), K("}")>>

TopSeparatorSources ==
    { Program(t1 \o sep1 \o t2 \o sep2) :
        t1 \in {VarA, EmptyFunc("f")},
        sep1 \in Separators,
        t2 \in {<<>>, VarB, EmptyFunc("g")},
        sep2 \in Separators }

\* Top level: what may and what may not stand outside a function
TopSources ==
    { Program(pre \o item \o post) :
        pre \in {<<>>, VarA \o <<NL>>, EmptyFunc("f") \o <<NL>>},
        item \in { <<K("}")>>, Block("if", <<>>), Block("for", <<>>), <<K("return")>>,
                   One, RefA, AssignA, <<Id("f"), K("("), K(")")>>,
                   <<K("import"), Str("fmt")>>, VarB, EmptyFunc("g"),
                   <<K("var"), Num(1), Id("int")>>,
                   <<K("var"), Id("s"), K("["), Id("a"), K("]"), Id("int")>> },
        post \in {<<>>, <<NL>>, <<NL>> \o VarB \o <<NL>>} }

\* for statements: the head, and the body on the line of the head or below
ForHeads ==
    { <<>>, RefA, <<Id("a"), K("<"), Num(1)>>, AssignA,
      <<Id("b"), K(":="), Num(1)>>,
      <<Id("b"), K(":="), Num(0), Semi, Id("b"), K("<"), Id("a"), Semi,
        Id("b"), K("="), Id("b"), K("+"), Num(1)>>,
      <<Semi, Id("a"), Semi, Id("a"), K("="), Num(1)>>,
      <<Id("a"), Semi, Id("a"), Semi, Id("a")>> }

ForBodies ==
    { <<K("{"), K("}")>>, <<K("{"), Id("a"), K("}")>>,
      <<K("{"), Id("a"), K("="), Num(1), K("}")>>,
      <<K("{"), NL, Id("a"), K("="), Num(1), NL, K("}")>>,
      <<K("{"), NL, K("}")>> }

ForSources ==
    { Program(Func("f", ParamA, <<>>, <<K("for")>> \o head \o body \o end)) :
        head \in ForHeads, body \in ForBodies, end \in {<<NL>>, <<Semi>> \o RefA \o <<NL>>} }

\* Function definitions: parameters, return values, and bodies that call the
\* function itself, a function defined below, and one defined nowhere
FuncSources ==
    { Program(Func("f", params, results, Lines(calls, <<NL>>)) \o rest) :
        params \in { <<>>, ParamA, ParamA \o <<K(","), Id("b"), K("*"), Id("int")>>,
                     <<Id("s"), K("["), Num(2), K("]"), Id("rune")>> },
        results \in { <<>>, <<Id("int")>>, <<K("*"), Id("int")>>,
                      <<K("("), Id("int"), K(")")>>,
                      <<K("("), Id("int"), K(","), Id("string"), K(")")>> },
        calls \in SeqsUpTo({ <<Id("f"), K("("), K(")")>>,
                             <<Id("g"), K("("), Num(1), K(","), Num(0), K(")")>>,
                             <<Id("h"), K("("), K(")")>> }, 2),
        rest \in { <<>>, Func("g", ParamA, <<>>, <<>>) } }

\* Declarations with an initializer that names a declared variable, in the
\* body of a function or in a block of it, with an outer a or without
InitializedDeclarations ==
    { <<K("var"), Id("a"), K("="), Id("a")>>,
      <<K("var"), Id("a"), Id("int"), K("="), Id("a")>>,
      <<K("var"), Id("a"), K("="), Id("a"), K("+"), Id("b")>>,
      <<K("var"), Id("b"), K("="), Id("a")>>,
      <<Id("a"), K(":="), Id("a")>>,
      <<Id("a"), K(":="), Num(1), K("+"), Id("a")>>,
      <<Id("a"), K(","), Id("b"), K(":="), Id("b"), K(","), Id("a")>>,
      <<Id("b"), K(","), Id("a"), K(":="), Num(1), K(","), Id("b")>> }

DeclSources ==
    { Program(Func("f", params, <<>>, body \o <<NL>> \o post)) :
        params \in {<<>>, ParamA},
        body \in InitializedDeclarations
                 \cup { Block(kind, d \o <<NL>>) :
                          kind \in {"if", "for"}, d \in InitializedDeclarations },
        post \in {<<>>, RefA \o <<NL>>} }

Sources ==
    ScopeSources \cup LocalSeparatorSources \cup TopSeparatorSources \cup TopSources
        \cup ForSources \cup FuncSources \cup DeclSources

(***************************************************************************)
(* The driver and the statement lists.                                     *)
(***************************************************************************)
\* the parser state held in the variables
Cur ==
    [pos |-> pos, Env |-> Env, envs |-> envs, functions |-> functions,
     halted |-> FALSE, diag |-> "", rest |-> NoRest]

\* a statement list being parsed: the statements read so far, whether a
\* terminator is required before the next one, and the statement that holds
\* the list (node, aux) with the index of its first token
Frame(kind, node, aux, from) ==
    [kind |-> kind, stmts |-> <<>>, endLineRequired |-> FALSE,
     node |-> node, aux |-> aux, from |-> from]

Top == stack[Len(stack)]

\* a statement was read: it joins the list, and a terminator is required
\* before the next one unless one follows (c is the result of consumeEndLine)
listStep_NoTerminator(f, node, from, c) ==
    [f EXCEPT !.stmts = Append(@, [node EXCEPT !.from = from]),
              !.endLineRequired = FALSE]

listStep(f, node, from, c) ==
    [f EXCEPT !.stmts = Append(@, [node EXCEPT !.from = from]),
              !.endLineRequired = ~c.ok]

\* the head of the loop of a statement list: the list ends here
listEnds(f, ps) ==
    IF f.kind = "top" THEN atEof(ps) \/ Test(ps, "}") ELSE Test(ps, "}")

\* the statement list node returned by localStmtList
stmtList(f, ps) == NewNode(ps, "STMT LIST", f.stmts)

\* the variables after a step that leaves the parser in state ps with the
\* open lists stk
Commit(ps, stk) ==
    /\ pos' = ps.pos
    /\ Env' = ps.Env
    /\ envs' = ps.envs
    /\ functions' = ps.functions
    /\ diag' = ps.diag
    /\ errorRest' = ps.rest
    /\ stage' = IF ps.halted THEN "exit" ELSE "parse"
    /\ stack' = IF ps.halted THEN stack ELSE stk
    /\ UNCHANGED <<tokens, out, lexVars, mainVars, errorVars>>

\* the statement node of a finished statement returns to the list below
Return(ps, stk, node, from) ==
    LET c == consumeEndLine(ps)
        n == Len(stk)
    IN  Commit(c.ps, [stk EXCEPT ![n] = listStep(@, node, from, c)])

\* the result r of a statement parser returns to the list on top of stk
Returned(r, stk, from) == Return(r.ps, stk, r.node, from)

\* the block of a statement whose head was parsed with the result h begins
Entered(h, kind) == Commit(h.ps, Append(stack, Frame(kind, h.node, h.aux, pos)))

Pop(stk) == SubSeq(stk, 1, Len(stk) - 1)

\* main: tokenizer.Tokenize(path)
Tokenize ==
    /\ stage = "start"
    /\ \E src \in Sources : tokens' = src
    /\ stage' = "tokenized"
    /\ UNCHANGED <<pos, envs, Env, functions, stack, code, diag, errorRest, out, lexVars, mainVars, errorVars>>

\* Parse: for tokenizer.consumeEndLine() {}
RECURSIVE skipEndLines(_)
skipEndLines(ps) ==
    IF consumeEndLine(ps).ok THEN skipEndLines(consumeEndLine(ps).ps) ELSE ps

\* Parse, to the call of topLevelStmtList
ParseBegin ==
    /\ stage = "tokenized"
    /\ LET start == [pos |-> 1, Env |-> RootEnv, envs |-> <<NewEnvironment>>,
                     functions |-> <<>>, halted |-> FALSE, diag |-> "",
                     rest |-> NoRest]
           ended(pkg, ps) ==
               /\ Commit(ps, <<Frame("top", NilNode, <<>>, ps.pos)>>)
               /\ code' = IF ps.halted THEN code ELSE <<pkg.node>>
           then(pkg) == ended(pkg, expectEndLine(pkg.ps))
       IN  then(packageStmt(skipEndLines(start)))

\* a statement list: a statement follows another with no terminator between
MissingSeparator ==
    /\ stage = "parse"
    /\ ~listEnds(Top, Cur)
    /\ Top.endLineRequired
    /\ Commit(errorAt(Cur, Fetch(Cur).rest, DiagSeparator), stack)
    /\ UNCHANGED code

\* a statement list: a terminator is skipped
EndLine ==
    /\ stage = "parse"
    /\ ~listEnds(Top, Cur)
    /\ ~Top.endLineRequired
    /\ consumeEndLine(Cur).ok
    /\ Commit(consumeEndLine(Cur).ps, stack)
    /\ UNCHANGED code

\* the guard of the statement-reading steps
StmtNext(level) ==
    /\ stage = "parse"
    /\ (Top.kind = "top") <=> (level = "top")
    /\ ~listEnds(Top, Cur)
    /\ ~Top.endLineRequired
    /\ ~consumeEndLine(Cur).ok

\* localStmtList: a statement that is no if and no for
LocalStmt ==
    /\ StmtNext("local")
    /\ ~Test(Cur, "if") /\ ~Test(Cur, "for")
    /\ Returned(localStmt(Cur), stack, pos)
    /\ UNCHANGED code

\* localStmtList: an if statement begins
IfBegin ==
    /\ StmtNext("local")
    /\ Test(Cur, "if")
    /\ Entered(ifStmt(Cur), "if")
    /\ UNCHANGED code

\* localStmtList: a for statement begins
ForBegin ==
    /\ StmtNext("local")
    /\ Test(Cur, "for")
    /\ Entered(forStmt(Cur), "for")
    /\ UNCHANGED code

\* the guard of the steps that end a block
BlockEnds(kind) ==
    /\ stage = "parse"
    /\ Top.kind = kind
    /\ listEnds(Top, Cur)

\* forStmt, from the return of localStmtList
ForEnd ==
    /\ BlockEnds("for")
    /\ LET body == stmtList(Top, Cur)
           ps == stepOut(Expect(Cur, "}"))
       IN  Return(ps, Pop(stack), [Top.node EXCEPT !.Children[4] = body], Top.from)
    /\ UNCHANGED code

\* funcDefinition, from the return of localStmtList
FuncEnd ==
    /\ BlockEnds("func")
    /\ LET body == stmtList(Top, Cur)
           ps == stepOut(Expect(Cur, "}"))
       IN  Return(ps, Pop(stack), [Top.node EXCEPT !.Children = <<body>> \o Top.aux],
                  Top.from)
    /\ UNCHANGED code

\* ifStmt, from the return of localStmtList, and metaIfStmt with no else
IfEnd ==
    /\ BlockEnds("if")
    /\ LET rhs == stmtList(Top, Cur)
           ps == stepOut(Expect(Cur, "}"))
           ifNode == NewBinaryNode(ps, "IF", Top.node, rhs)
       IN  /\ ~Test(ps, "else")
           /\ Return(ps, Pop(stack), NewBinaryNode(ps, "META IF", ifNode, NilNode),
                     Top.from)
    /\ UNCHANGED code

\* ifStmt, from the return of localStmtList, and metaIfStmt entering elseStmt
IfElse ==
    /\ BlockEnds("if")
    /\ LET rhs == stmtList(Top, Cur)
           ps == stepOut(Expect(Cur, "}"))
           ifNode == NewBinaryNode(ps, "IF", Top.node, rhs)
       IN  /\ Test(ps, "else")
           /\ Commit(elseStmt(ps),
                     Append(Pop(stack), Frame("else", ifNode, <<>>, Top.from)))
    /\ UNCHANGED code

\* elseStmt, from the return of localStmtList, and the rest of metaIfStmt
ElseEnd ==
    /\ BlockEnds("else")
    /\ LET stmts == stmtList(Top, Cur)
           ps == stepOut(Expect(Cur, "}"))
           elseNode == NewNode(ps, "ELSE", <<stmts>>)
       IN  Return(ps, Pop(stack), NewBinaryNode(ps, "META IF", Top.node, elseNode),
                  Top.from)
    /\ UNCHANGED code

\* topLevelStmtList: a function definition begins
FuncBegin ==
    /\ StmtNext("top")
    /\ Test(Cur, "func")
    /\ Entered(funcDefinition(Cur), "func")
    /\ UNCHANGED code

\* topLevelStmtList: a statement that is no function definition
TopLevelStmt ==
    /\ StmtNext("top")
    /\ ~Test(Cur, "func")
    /\ Returned(topLevelStmt(Cur), stack, pos)
    /\ UNCHANGED code

\* Parse, from the return of topLevelStmtList
ParseReturn ==
    /\ BlockEnds("top")
    /\ code' = code \o Top.stmts
    /\ stage' = "returned"
    /\ stack' = <<>>
    /\ UNCHANGED <<tokens, pos, envs, Env, functions, diag, errorRest, out, lexVars, mainVars, errorVars>>

\* main: the first half of the assembly.  No source that Parse accepts here
\* holds a string literal, so the loop over Env.StringLiterals prints nothing.
Preamble ==
    /\ stage = "returned"
    /\ out' = <<".intel_syntax noprefix", ".globl main", ".data", ".text">>
    /\ stage' = "emitted"
    /\ UNCHANGED <<tokens, pos, envs, Env, functions, stack, code, diag, errorRest, lexVars, mainVars, errorVars>>

\* main: gen(c) for the next node of code
Gen ==
    /\ stage = "emitted"
    /\ Len(out) - 4 < Len(code)
    /\ out' = Append(out, code[Len(out) - 3].Kind)
    /\ UNCHANGED <<stage, tokens, pos, envs, Env, functions, stack, code, diag, errorRest, lexVars, mainVars, errorVars>>

Init ==
    /\ stage = "start"
    /\ tokens = <<>>
    /\ pos = 1
    /\ envs = <<>>
    /\ Env = 0
    /\ functions = <<>>
    /\ stack = <<>>
    /\ code = <<>>
    /\ diag = ""
    /\ errorRest = NoRest
    /\ out = <<>>
    /\ userInput = <<>>
    /\ input = <<>>
    /\ toks = <<>>
    /\ lexState = "idle"
    /\ mainTokens = <<>>
    /\ locals = <<>>
    /\ mainCode = <<>>
    /\ mainStage = "idle"
    /\ errorAtRest = <<>>
    /\ stderr = <<>>
    /\ exitStatus = 0
    /\ errorStage = "idle"

Next ==
    \/ Tokenize
    \/ ParseBegin
    \/ MissingSeparator
    \/ EndLine
    \/ LocalStmt
    \/ IfBegin
    \/ ForBegin
    \/ ForEnd
    \/ FuncEnd
    \/ IfEnd
    \/ IfElse
    \/ ElseEnd
    \/ FuncBegin
    \/ TopLevelStmt
    \/ ParseReturn
    \/ Preamble
    \/ Gen

Spec == Init /\ [][Next]_vars

(***************************************************************************)
(* The syntax tree and the token stream, as the properties read them.      *)
(***************************************************************************)
RECURSIVE NodesOf(_)
NodesOf(n) == {n} \cup UNION { NodesOf(n.Children[i]) : i \in 1..Len(n.Children) }

Range(s) == { s[i] : i \in 1..Len(s) }

\* the nodes the parser holds: the Program, and the statements, head and
\* parameters of every statement list that is still open
Roots ==
    Range(code) \cup
    UNION { Range(stack[i].stmts) \cup {stack[i].node} \cup Range(stack[i].aux) :
              i \in 1..Len(stack) }

AllNodes == UNION { NodesOf(r) : r \in Roots }

\* the statement lists: the open ones and the finished ones
StmtLists ==
    { stack[i].stmts : i \in 1..Len(stack) } \cup
    { n.Children : n \in { m \in AllNodes : m.Kind = "STMT LIST" } }

TopLevelDeclarations == {"PACKAGE STMT", "IMPORT STMT", "TOPLEVEL VAR STMT", "FUNCTION DEF"}

\* C1: whenever Parse returns a Program, the token cursor is at the EOF token.
C1_ReturnsAtEof == stage = "returned" => tokens[pos].kind = "EOF"

\* C2: every statement of the Program Parse returns is a package, import,
\* var or func declaration (no expression statement or assignment is accepted
\* at top level).
C2_OnlyDeclarationsAtTopLevel ==
    stage = "returned" => \A i \in 1..Len(code) : code[i].Kind \in TopLevelDeclarations

\* C2, the part that holds: if, for and return at top level halt, each with
\* its own diagnostic.
C2_ControlFlowRejected ==
    /\ diag \in {DiagTopIf, DiagTopFor, DiagTopReturn} =>
          /\ stage = "exit"
          /\ Top.kind = "top"
          /\ tokens[pos].kind =
                (CASE diag = DiagTopIf -> "if" [] diag = DiagTopFor -> "for"
                   [] OTHER -> "return")
    /\ stage = "returned" =>
          \A i \in 1..Len(code) : code[i].Kind \notin {"META IF", "FOR", "RETURN"}

(***************************************************************************)
(* Scopes, read off the token stream.  Every func, if, else and for the    *)
(* parser has passed opened a block and every } closed one; the scopes are *)
(* numbered in the order in which they open, the root scope being 1.       *)
(***************************************************************************)
Openers == {"func", "if", "else", "for"}

OpenersBefore(p) == Cardinality({ i \in 1..(p - 1) : tokens[i].kind \in Openers })

\* the scopes that are open in front of token p, outermost first
RECURSIVE ScopeAt(_)
ScopeAt(p) ==
    IF p <= 1 THEN <<RootEnv>>
    ELSE IF tokens[p - 1].kind \in Openers
         THEN Append(ScopeAt(p - 1), OpenersBefore(p) + 1)
    ELSE IF tokens[p - 1].kind = "}" /\ Len(ScopeAt(p - 1)) > 1
         THEN SubSeq(ScopeAt(p - 1), 1, Len(ScopeAt(p - 1)) - 1)
    ELSE ScopeAt(p - 1)

\* the environments from e up to the root, outermost first
RECURSIVE EnvChain(_)
EnvChain(e) == IF e = 0 THEN <<>> ELSE Append(EnvChain(envs[e].parent), e)

\* the nodes that declare a variable: the variable of a var statement, the
\* variables of a short variable declaration, the parameters of a function
DeclNodes ==
    { n.Children[1] : n \in { m \in AllNodes :
          m.Kind \in {"LOCAL VAR STMT", "TOPLEVEL VAR STMT"} } }
    \cup UNION { Range(n.Children) : n \in { m \in AllNodes : m.Kind = "LOCAL VAR LIST" } }
    \cup UNION { Range(SubSeq(n.Children, 2, Len(n.Children))) :
                   n \in { m \in AllNodes : m.Kind = "FUNCTION DEF" } }
    \cup UNION { Range(stack[i].aux) : i \in 1..Len(stack) }

\* the nodes that refer to a variable
RefNodes == { n \in AllNodes : n.Kind = "VARIABLE" } \ DeclNodes

Name(n) == tokens[n.from].str

Innermost(p) == ScopeAt(p)[Len(ScopeAt(p))]

\* the declarations of the name of r that are in force where r stands: made
\* earlier, in a scope that is open at r
Visible(r) ==
    { d \in DeclNodes :
        /\ Name(d) = Name(r)
        /\ d.from < r.from
        /\ Innermost(d.from) \in Range(ScopeAt(r.from)) }

\* C3: a declaration of a name already bound in the immediate scope halts
\* with the already-defined diagnostic and is never accepted; the same name
\* declared in a nested scope is accepted; a reference resolves to the
\* innermost declaration in force where it stands, so to the inner one inside
\* the nested block and to the outer one again after the block.
C3_ShadowingByScope ==
    /\ diag = DiagDefined =>
          /\ stage = "exit"
          /\ HasVar(envs[Env], tokens[pos - 1].str)
    /\ \A d, e \in DeclNodes :
          (Name(d) = Name(e) /\ Innermost(d.from) = Innermost(e.from)) => d = e
    /\ \A d \in DeclNodes : d.Var = [env |-> Innermost(d.from), name |-> Name(d)]
    /\ \A r \in RefNodes : \A d \in Visible(r) :
          (\A e \in Visible(r) : Innermost(e.from) <= Innermost(d.from)) => r.Var = d.Var

\* C3 happens: a name declared in a function and again in a nested block is
\* referred to inside the block and after it, and the two references resolve
\* to different variables.
C3_Witness ==
    /\ stage = "returned"
    /\ \E r1, r2 \in RefNodes :
          /\ Name(r1) = Name(r2)
          /\ r1.from < r2.from
          /\ r1.Var.env > r2.Var.env
          /\ r2.Var.env > RootEnv
          /\ Cardinality(Visible(r1)) = 2

\* C3 happens: a redeclaration in the immediate scope has halted the parser.
C3_WitnessHalt == stage = "exit" /\ diag = DiagDefined

\* C4: scopes are pushed and popped in step with the blocks: the scopes
\* active at the cursor are those of the blocks open there, one scope was
\* created for every if, else, for and function passed, and the root scope
\* is the active one when Parse returns.
C4_ScopesBalanced ==
    /\ stage \in {"parse", "returned", "emitted"} =>
          /\ EnvChain(Env) = ScopeAt(pos)
          /\ Len(envs) = OpenersBefore(pos) + 1
    /\ stage = "parse" => Len(stack) = Len(ScopeAt(pos))
    /\ stage \in {"returned", "emitted"} => Env = RootEnv

\* C4 happens: Parse has returned from a function that held an if with an
\* else, or a for of each form, and the statement after it was parsed in the
\* scope of the function.
C4_Witness ==
    /\ stage = "returned"
    /\ Len(envs) >= 3
    /\ \E n \in AllNodes :
          /\ n.Kind = "STMT LIST"
          /\ Len(n.Children) >= 2
          /\ n.Children[1].Kind \in {"META IF", "FOR"}
          /\ n.Children[2].Env = n.Env
          /\ n.Env > RootEnv

\* C5: a reference is accepted only when a declaration of its name is in
\* force where it stands; the undefined-variable diagnostic is given for a
\* name bound in no scope from the active one to the root, it halts the
\* compiler, and nothing has been written to the output when the compiler
\* halts.
C5_UndefinedHalts ==
    /\ \A r \in RefNodes : r.Var # NilVar /\ Visible(r) # {}
    /\ diag = DiagUndefined =>
          /\ stage = "exit"
          /\ \A i \in 1..Len(EnvChain(Env)) :
                ~HasVar(envs[EnvChain(Env)[i]], tokens[pos - 1].str)
    /\ stage = "exit" => out = <<>>

\* C5 happens: a reference to a name bound nowhere has halted the compiler,
\* inside a function that declares the name later.
C5_Witness ==
    /\ stage = "exit"
    /\ diag = DiagUndefined
    /\ tokens[pos - 1].str = "a"
    /\ \E i \in (pos + 1)..Len(tokens) : tokens[i] = Id("a") /\ tokens[i - 1].kind = "var"

Separator(t) == t.kind \in {";", "\n"}

\* C6: in every statement list a statement that is not the first stands
\* right after a ; or a newline; the missing-terminator diagnostic is given
\* after a statement, in front of a token that is no terminator and does not
\* end the list, and whenever a parsed statement is followed by such a token
\* the parser halts with that diagnostic.
C6_StatementsSeparated ==
    /\ \A l \in StmtLists : \A i \in 2..Len(l) : Separator(tokens[l[i].from - 1])
    /\ diag = DiagSeparator =>
          /\ stage = "exit"
          /\ Top.stmts # <<>>
          /\ ~Separator(tokens[pos])
          /\ ~listEnds(Top, Cur)
    /\ (stage = "parse" /\ Top.stmts # <<>> /\ ~Separator(tokens[pos - 1])
          /\ ~listEnds(Top, Cur)) => ENABLED MissingSeparator

\* C6, as a step: the step taken after a statement that no terminator and no
\* end of the list follows halts the parser with the missing-terminator
\* diagnostic.
C6_MissingSeparatorHalts ==
    [][(stage = "parse" /\ Top.stmts # <<>> /\ ~Separator(tokens[pos - 1])
          /\ ~listEnds(Top, Cur)) => (stage' = "exit" /\ diag' = DiagSeparator)]_vars

\* C6 happens: a function body whose last statement stands right in front of
\* the closing brace was accepted, after a statement list of two statements
\* with a terminator between them.
C6_Witness ==
    /\ stage = "returned"
    /\ \E n \in AllNodes :
          /\ n.Kind = "FUNCTION DEF"
          /\ Len(n.Children[1].Children) = 2
          /\ \E q \in 1..Len(tokens) :
                /\ tokens[q].kind = "}"
                /\ tokens[q - 1] = Id("a")
                /\ n.Children[1].Children[2].from = q - 1

\* C6 happens: two statements with no terminator between them have halted
\* the parser.
C6_WitnessHalt == stage = "exit" /\ diag = DiagSeparator /\ tokens[pos].kind = "var"

(***************************************************************************)
(* The signature of a function, read off the tokens of its head.           *)
(***************************************************************************)
RECURSIVE TypeAt(_), TypeLen(_), TypesFrom(_)

\* the type written at token p, and the number of its tokens
TypeAt(p) ==
    IF tokens[p].kind = "*" THEN NewPointerType(TypeAt(p + 1))
    ELSE IF tokens[p].kind = "[" THEN NewArrayType(TypeAt(p + 3), tokens[p + 1].val)
    ELSE IF tokens[p].str = "int" THEN NewType("INT")
    ELSE IF tokens[p].str = "rune" THEN NewType("RUNE")
    ELSE IF tokens[p].str = "string" THEN NewPointerType(NewType("RUNE"))
    ELSE ZeroType

TypeLen(p) ==
    IF tokens[p].kind = "*" THEN 1 + TypeLen(p + 1)
    ELSE IF tokens[p].kind = "[" THEN 3 + TypeLen(p + 3)
    ELSE 1

\* the types of the list written from token p, with commas between them
TypesFrom(p) ==
    <<TypeAt(p)>> \o
        (IF tokens[p + TypeLen(p)].kind = "," THEN TypesFrom(p + TypeLen(p) + 1) ELSE <<>>)

\* the parenthesis that closes the parameters of the function at token from
ParametersEnd(from) == CHOOSE q \in from..Len(tokens) :
    tokens[q].kind = ")" /\ \A j \in from..(q - 1) : tokens[j].kind # ")"

\* the tokens that name the parameters, in their order
ParameterNames(from) ==
    { q \in (from + 3)..(ParametersEnd(from) - 1) :
        tokens[q].kind = "IDENTIFIER" /\ tokens[q - 1].kind \in {"(", ","} }

WrittenReturnType(from) ==
    LET r == ParametersEnd(from) + 1
    IN  IF tokens[r].kind = "{" THEN NewType("VOID")
        ELSE IF tokens[r].kind = "(" THEN NewMultipleType(TypesFrom(r + 1))
        ELSE TypeAt(r)

\* C7: while the body of a function is being parsed, from before its first
\* statement, the function table holds the function with the types of its
\* parameters in the order written and with its return type: Void when none
\* is written, the Multi of the listed types for a parenthesised list; and a
\* body that calls its own function or one defined below is parsed through.
C7_SignatureBeforeBody ==
    /\ \A i \in 1..Len(stack) : stack[i].kind = "func" =>
          LET f == stack[i]
              name == f.node.Label
          IN  /\ name \in DOMAIN functions
              /\ name = tokens[f.from + 1].str
              /\ Len(functions[name].ParameterTypes) = Cardinality(ParameterNames(f.from))
              /\ Len(f.aux) = Cardinality(ParameterNames(f.from))
              /\ \A k \in 1..Len(f.aux) :
                    /\ f.aux[k].from \in ParameterNames(f.from)
                    /\ k > 1 => f.aux[k - 1].from < f.aux[k].from
                    /\ functions[name].ParameterTypes[k] = TypeAt(f.aux[k].from + 1)
              /\ functions[name].ReturnValueType = WrittenReturnType(f.from)
    /\ tokens \in FuncSources => stage # "exit"

\* C7 happens: the body of g is about to be parsed with g in the function
\* table, below a function f of two parameters and two return values whose
\* body called f and g.
C7_Witness ==
    /\ stage = "parse"
    /\ Len(stack) = 2
    /\ Top.kind = "func" /\ Top.stmts = <<>> /\ Top.node.Label = "g"
    /\ functions["g"].ParameterTypes = <<NewType("INT")>>
    /\ functions["g"].ReturnValueType = NewType("VOID")
    /\ functions["f"].ReturnValueType.kind = "MULTI"
    /\ Len(functions["f"].ReturnValueType.of) = 2
    /\ Len(functions["f"].ParameterTypes) = 2
    /\ \E n \in AllNodes :
          /\ n.Kind = "FUNCTION DEF" /\ n.Label = "f"
          /\ { m.Label : m \in { c \in NodesOf(n) : c.Kind = "FUNCTION CALL" } } = {"f", "g"}

\* the head of the for at token from: the tokens between for and the brace
HeadEnd(from) == CHOOSE q \in from..Len(tokens) :
    tokens[q].kind = "{" /\ \A j \in from..(q - 1) : tokens[j].kind # "{"

HeadKinds(from) == { tokens[j].kind : j \in (from + 1)..(HeadEnd(from) - 1) }

\* C8: a for whose head is a single bare expression, with every name in it
\* bound, is accepted as a while-style loop: the expression is its condition
\* and it has no init and no update.
C8_WhileStyleAccepted ==
    (/\ StmtNext("local")
     /\ Test(Cur, "for")
     /\ HeadKinds(pos) # {}
     /\ HeadKinds(pos) \subseteq {"IDENTIFIER", "NUMBER", "<", "+"}
     /\ \A j \in (pos + 1)..(HeadEnd(pos) - 1) :
           tokens[j].kind = "IDENTIFIER" => FindVar(Cur, tokens[j].str) # NilVar)
    => /\ ~forStmt(Cur).ps.halted
       /\ forStmt(Cur).node.Children[1] = NilNode
       /\ forStmt(Cur).node.Children[2] # NilNode
       /\ forStmt(Cur).node.Children[3] = NilNode

\* C8, the part that holds: an accepted for has no init, condition and update
\* when the brace follows for; only a condition when its head is one
\* statement, which is then no assignment and no short variable declaration;
\* a condition, and an init and an update where they are written, otherwise;
\* and the diagnostic for a head that is no expression halts the parser.
C8_FormsOfAcceptedFor ==
    /\ \A i \in 1..Len(stack) : stack[i].kind = "for" =>
          LET n == stack[i].node
              from == stack[i].from
              head == HeadKinds(from)
          IN  /\ n.Kind = "FOR" /\ Len(n.Children) = 4
              /\ head = {} => n.Children = <<NilNode, NilNode, NilNode, NilNode>>
              /\ (head # {} /\ ";" \notin head) =>
                    /\ n.Children[1] = NilNode /\ n.Children[3] = NilNode
                    /\ n.Children[2] # NilNode
                    /\ "=" \notin head /\ ":=" \notin head
              /\ ";" \in head =>
                    /\ n.Children[2] # NilNode
                    /\ (n.Children[1] = NilNode) <=> (tokens[from + 1].kind = ";")
                    /\ (n.Children[3] = NilNode) <=> (tokens[HeadEnd(from) - 1].kind = ";")
    /\ diag = DiagForCondition =>
          /\ stage = "exit"
          /\ tokens[pos - 1].kind = "{"

(***************************************************************************)
(* The tokenizer of parse.go.  A string is the sequence of its characters. *)
(***************************************************************************)
Letters == {"i", "f", "r", "e", "t", "u", "n"}
DigitChars == <<"0", "1", "2", "3", "4", "5", "6", "7", "8", "9">>
Digits == Range(DigitChars)
Spaces == {" ", "\n"}

isAlpha(c) == c \in Letters

IsDigit(c) == c \in Digits

IsSpace(c) == c \in Spaces

DigitValue(c) == (CHOOSE i \in 1..10 : DigitChars[i] = c) - 1

Drop(s, n) == SubSeq(s, n + 1, Len(s))

\* strtoi: the number read from the digits s starts with, after res, and the
\* rest of s
RECURSIVE strtoiFrom(_, _)
strtoiFrom(s, res) ==
    IF s = <<>> THEN [val |-> res, rest |-> <<>>]
    ELSE IF ~IsDigit(Head(s)) THEN [val |-> res, rest |-> s]
    ELSE strtoiFrom(Tail(s), res * 10 + DigitValue(Head(s)))

strtoi(s) == strtoiFrom(s, 0)

\* strconv.Itoa, for a number that is not negative
RECURSIVE Itoa(_)
Itoa(n) ==
    IF n < 10 THEN <<DigitChars[n + 1]>>
    ELSE Append(Itoa(n \div 10), DigitChars[(n % 10) + 1])

\* getIdentifier: the identifier s starts with, after res, and the rest of s;
\* i is the index of the character
RECURSIVE getIdentifierFrom(_, _, _)
getIdentifierFrom(s, i, res) ==
    IF s = <<>> THEN [str |-> res, rest |-> <<>>]
    ELSE IF (i = 0 /\ IsDigit(Head(s))) \/ ~(isAlpha(Head(s)) \/ Head(s) = "_")
    THEN [str |-> res, rest |-> s]
    ELSE getIdentifierFrom(Tail(s), i + 1, Append(res, Head(s)))

getIdentifier(s) == getIdentifierFrom(s, 0, <<>>)

newToken(kind, str, rest) == [kind |-> kind, val |-> 0, str |-> str, rest |-> rest]

TokenReturn == <<"r", "e", "t", "u", "r", "n">>
TokenIf == <<"i", "f">>

TwoCharOperators == {<<"=", "=">>, <<"!", "=">>, <<"<", "=">>, <<">", "=">>}
OneCharOperators == {"+", "-", "*", "/", "(", ")", "<", ">", ";", "\n", "=", "{", "}"}

\* the longest input drawn from the alphabet
MaxLen == 4

Alphabet == {"i", "f", "_", "0", "1", " ", "\n", "=", "!"}

Inputs ==
    SeqsUpTo(Alphabet, MaxLen)
        \cup { TokenReturn, TokenReturn \o <<"1">>, TokenReturn \o <<"_">>,
               <<"i", "f", "<", "=", "1", "0", ";">>,
               <<"{", "t", "=", "(", "0", "0", "7", "+", "u", ")", "*", "2", "}">>,
               <<"e", ">", "=", "n", "/", "3", "-", "1", ">", "0">> }

\* the head of the loop of tokenize: the input starts with a two-character
\* operator
head2 == Len(input) >= 2 /\ SubSeq(input, 1, 2) \in TwoCharOperators

\* tokenize is called with the input of the user
TokenizeBegin ==
    /\ lexState = "idle"
    /\ \E s \in Inputs : userInput' = s /\ input' = s
    /\ toks' = <<>>
    /\ lexState' = "run"
    /\ UNCHANGED <<parserVars, mainVars, errorVars>>

\* tokenize: a two-character operator
TwoCharOperator ==
    /\ lexState = "run" /\ input # <<>>
    /\ head2
    /\ toks' = Append(toks, newToken("RESERVED", SubSeq(input, 1, 2), input))
    /\ input' = Drop(input, 2)
    /\ UNCHANGED <<userInput, lexState, parserVars, mainVars, errorVars>>

\* tokenize: an identifier or a keyword
Identifier ==
    /\ lexState = "run" /\ input # <<>>
    /\ ~head2
    /\ isAlpha(input[1]) \/ input[1] = "_"
    /\ LET id == getIdentifier(input)
           kind == IF id.str = TokenReturn THEN "return"
                   ELSE IF id.str = TokenIf THEN "if"
                   ELSE "IDENTIFIER"
       IN  /\ toks' = Append(toks, newToken(kind, id.str, input))
           /\ input' = id.rest
    /\ UNCHANGED <<userInput, lexState, parserVars, mainVars, errorVars>>

\* tokenize: a one-character operator or a newline
OneCharOperator ==
    /\ lexState = "run" /\ input # <<>>
    /\ ~head2
    /\ ~(isAlpha(input[1]) \/ input[1] = "_")
    /\ input[1] \in OneCharOperators
    /\ toks' = Append(toks, newToken("RESERVED", <<input[1]>>, input))
    /\ input' = Drop(input, 1)
    /\ UNCHANGED <<userInput, lexState, parserVars, mainVars, errorVars>>

\* tokenize: white space is skipped
Space ==
    /\ lexState = "run" /\ input # <<>>
    /\ ~head2
    /\ ~(isAlpha(input[1]) \/ input[1] = "_")
    /\ input[1] \notin OneCharOperators
    /\ IsSpace(input[1])
    /\ input' = Drop(input, 1)
    /\ UNCHANGED <<userInput, toks, lexState, parserVars, mainVars, errorVars>>

\* tokenize: a number
Number ==
    /\ lexState = "run" /\ input # <<>>
    /\ ~head2
    /\ ~(isAlpha(input[1]) \/ input[1] = "_")
    /\ input[1] \notin OneCharOperators
    /\ ~IsSpace(input[1])
    /\ IsDigit(input[1])
    /\ LET n == strtoi(input)
       IN  /\ toks' = Append(toks,
                  [newToken("NUMBER", <<>>, input) EXCEPT !.val = n.val, !.str = Itoa(n.val)])
           /\ input' = n.rest
    /\ UNCHANGED <<userInput, lexState, parserVars, mainVars, errorVars>>

\* tokenize: errorAt(input, ...) for a character that starts no token
Untokenizable ==
    /\ lexState = "run" /\ input # <<>>
    /\ ~head2
    /\ ~(isAlpha(input[1]) \/ input[1] = "_")
    /\ input[1] \notin OneCharOperators
    /\ ~IsSpace(input[1])
    /\ ~IsDigit(input[1])
    /\ lexState' = "error"
    /\ UNCHANGED <<userInput, input, toks, parserVars, mainVars, errorVars>>

\* tokenize: the input is used up, the EOF token ends the tokens
TokenizeReturn ==
    /\ lexState = "run" /\ input = <<>>
    /\ toks' = Append(toks, newToken("EOF", <<>>, <<>>))
    /\ lexState' = "done"
    /\ UNCHANGED <<userInput, input, parserVars, mainVars, errorVars>>

LexNext ==
    \/ TokenizeBegin
    \/ TwoCharOperator
    \/ Identifier
    \/ OneCharOperator
    \/ Space
    \/ Number
    \/ Untokenizable
    \/ TokenizeReturn

SpecLex == Init /\ [][LexNext]_vars

\* the longest prefix of s made of letters, digits and _
RECURSIVE MaximalRun(_)
MaximalRun(s) ==
    IF s # <<>> /\ (isAlpha(Head(s)) \/ IsDigit(Head(s)) \/ Head(s) = "_")
    THEN <<Head(s)>> \o MaximalRun(Tail(s))
    ELSE <<>>

IdentifierKinds == {"IDENTIFIER", "return", "if"}

\* C9: an identifier or keyword token is the maximal run of letters, digits
\* and _ at the place where it starts, and it is a keyword exactly when its
\* text is a keyword.
C9_IdentifierIsMaximalRun ==
    \A i \in 1..Len(toks) : toks[i].kind \in IdentifierKinds =>
        /\ toks[i].str = MaximalRun(toks[i].rest)
        /\ (toks[i].kind = "if") <=> (toks[i].str = TokenIf)
        /\ (toks[i].kind = "return") <=> (toks[i].str = TokenReturn)

\* C9, the part that holds: an identifier or keyword token starts with a
\* letter or _, is made of letters and _, stops in front of the first
\* character that is neither, and is a keyword exactly when its text is one.
C9_IdentifierStopsAtDigit ==
    \A i \in 1..Len(toks) : toks[i].kind \in IdentifierKinds =>
        LET t == toks[i]
            n == Len(t.str)
        IN  /\ n > 0
            /\ t.str = SubSeq(t.rest, 1, n)
            /\ \A j \in 1..n : isAlpha(t.str[j]) \/ t.str[j] = "_"
            /\ Len(t.rest) > n => ~(isAlpha(t.rest[n + 1]) \/ t.rest[n + 1] = "_")
            /\ (t.kind = "if") <=> (t.str = TokenIf)
            /\ (t.kind = "return") <=> (t.str = TokenReturn)

RECURSIVE Concat(_), Unspaced(_)

\* the texts of the tokens ts, one after the other
Concat(ts) == IF ts = <<>> THEN <<>> ELSE Head(ts).str \o Concat(Tail(ts))

\* s without its white space other than newlines
Unspaced(s) ==
    IF s = <<>> THEN <<>>
    ELSE IF IsSpace(Head(s)) /\ Head(s) # "\n" THEN Unspaced(Tail(s))
    ELSE <<Head(s)>> \o Unspaced(Tail(s))

\* C10: when tokenize returns, the texts of the tokens, one after the other,
\* are the input without its white space other than newlines.
C10_TextsGiveInput == lexState = "done" => Concat(toks) = Unspaced(userInput)

\* C10, the part that holds: the texts of the tokens that are no numbers are
\* the input at the place of the token, and the text of a number is the
\* decimal form of the value of the digits there.
C10_TextsButNumbers ==
    \A i \in 1..Len(toks) :
        LET t == toks[i]
        IN  IF t.kind = "NUMBER"
            THEN /\ t.val = strtoi(t.rest).val
                 /\ strtoi(t.str).val = t.val
                 /\ t.str[1] = "0" => t.val = 0
            ELSE t.str = SubSeq(t.rest, 1, Len(t.str))

\* C11: when an expectation of an identifier or of a number fails, the suffix
\* handed to errorAt is the one that starts at the token under the cursor.
C11_DiagnosticAtCursor ==
    diag \in {DiagNotIdentifier, DiagNotNumber} => errorRest = pos

\* C11, the part that holds: expectNumber hands errorAt the suffix of the
\* token under the cursor, and expectIdentifier hands it the empty suffix,
\* the end of the source, wherever the cursor is.
C11_IdentifierAtEndOfSource ==
    /\ diag = DiagNotNumber => (stage = "exit" /\ errorRest = pos)
    /\ diag = DiagNotIdentifier => (stage = "exit" /\ errorRest = EmptyRest)

(***************************************************************************)
(* The parser of parse.go.  Its state m is the tokens from the current one *)
(* on, the local variables, and whether the process has exited.            *)
(***************************************************************************)
Main == [tokens |-> mainTokens, locals |-> locals, halted |-> FALSE]

\* errorAt of parse.go: report and os.Exit(1)
main_errorAt(m) == [m EXCEPT !.halted = TRUE]

\* a Node of parse.go; NilMain is the nil pointer
newNode(kind, lhs, rhs) == [kind |-> kind, lhs |-> lhs, rhs |-> rhs, val |-> 0, offset |-> 0]

NilMain == [kind |-> "nil"]

newNodeNum(val) == [newNode("NUM", NilMain, NilMain) EXCEPT !.val = val]

\* consume(op): [ok, m]
consume(m, op) ==
    IF m.halted \/ m.tokens[1].kind # "RESERVED" \/ m.tokens[1].str # op
    THEN [ok |-> FALSE, m |-> m]
    ELSE [ok |-> TRUE, m |-> [m EXCEPT !.tokens = Tail(@)]]

consumeKind(m, kind) ==
    IF m.halted \/ m.tokens[1].kind # kind
    THEN [ok |-> FALSE, m |-> m]
    ELSE [ok |-> TRUE, m |-> [m EXCEPT !.tokens = Tail(@)]]

expect(m, op) ==
    IF m.halted THEN m
    ELSE IF m.tokens[1].kind # "RESERVED" \/ m.tokens[1].str # op THEN main_errorAt(m)
    ELSE [m EXCEPT !.tokens = Tail(@)]

expectKind(m, kind) ==
    IF m.halted THEN m
    ELSE IF m.tokens[1].kind # kind THEN main_errorAt(m)
    ELSE [m EXCEPT !.tokens = Tail(@)]

\* findLocalVar: the index in locals of the variable named as tok, 0 if none
findLocalVar(m, tok) ==
    IF \E i \in 1..Len(m.locals) : m.locals[i].name = tok.str
    THEN CHOOSE i \in 1..Len(m.locals) : m.locals[i].name = tok.str
    ELSE 0

\* the result of a parsing function of parse.go
M(m, node) == [m |-> m, node |-> node]

RECURSIVE main_mulLoop_Additive(_, _, _)
RECURSIVE main_expr(_), main_equalityLoop(_, _, _), main_relationalLoop(_, _, _),
          main_addLoop(_, _, _), main_mulLoop(_, _, _), main_unary(_), main_primary(_)

\* primary with a new variable at the offset of the last one
main_local_NoAdvance(m, tok) ==
    LET found == findLocalVar(m, tok)
        offset == IF Len(m.locals) = 0 THEN 0 + 8 ELSE m.locals[Len(m.locals)].offset
        node == newNode("Local Var", NilMain, NilMain)
    IN  IF found # 0 THEN M(m, [node EXCEPT !.offset = m.locals[found].offset])
        ELSE M([m EXCEPT !.locals = Append(@, [name |-> tok.str, offset |-> offset])],
               [node EXCEPT !.offset = offset])

\* primary: an identifier is a local variable, new when findLocalVar does
\* not find it
main_local(m, tok) ==
    LET found == findLocalVar(m, tok)
        offset == IF Len(m.locals) = 0 THEN 0 + 8 ELSE m.locals[Len(m.locals)].offset + 8
        node == newNode("Local Var", NilMain, NilMain)
    IN  IF found # 0 THEN M(m, [node EXCEPT !.offset = m.locals[found].offset])
        ELSE M([m EXCEPT !.locals = Append(@, [name |-> tok.str, offset |-> offset])],
               [node EXCEPT !.offset = offset])

main_primary(m) ==
    LET closed(n) == M(expect(n.m, <<")">>), n.node)
    IN  IF m.halted THEN M(m, NilMain)
        ELSE IF consume(m, <<"(">>).ok THEN closed(main_expr(consume(m, <<"(">>).m))
        ELSE IF m.tokens[1].kind = "IDENTIFIER"
        THEN main_local([m EXCEPT !.tokens = Tail(@)], m.tokens[1])
        ELSE IF m.tokens[1].kind # "NUMBER" THEN M(main_errorAt(m), NilMain)
        ELSE M([m EXCEPT !.tokens = Tail(@)], newNodeNum(m.tokens[1].val))

main_unary(m) ==
    LET negated(n) == M(n.m, newNode("SUB", newNodeNum(0), n.node))
    IN  IF consume(m, <<"+">>).ok THEN main_primary(consume(m, <<"+">>).m)
        ELSE IF consume(m, <<"-">>).ok THEN negated(main_primary(consume(m, <<"-">>).m))
        ELSE main_primary(m)

\* n = newNode(kind, n, operand), or the first operand when there is no n yet
main_operand(r, lhs, kind) == IF kind = "" THEN r.node ELSE newNode(kind, lhs, r.node)

\* mul that takes "+" as an operator of its own level
main_mulLoop_Additive(m, lhs, kind) ==
    LET next(r, n) ==
            IF consume(r.m, <<"*">>).ok
            THEN main_mulLoop_Additive(consume(r.m, <<"*">>).m, n, "MUL")
            ELSE IF consume(r.m, <<"/">>).ok
            THEN main_mulLoop_Additive(consume(r.m, <<"/">>).m, n, "DIV")
            ELSE IF consume(r.m, <<"+">>).ok
            THEN main_mulLoop_Additive(consume(r.m, <<"+">>).m, n, "ADD")
            ELSE M(r.m, n)
        then(r) == next(r, main_operand(r, lhs, kind))
    IN  then(main_unary(m))

main_mulLoop(m, lhs, kind) ==
    LET next(r, n) ==
            IF consume(r.m, <<"*">>).ok THEN main_mulLoop(consume(r.m, <<"*">>).m, n, "MUL")
            ELSE IF consume(r.m, <<"/">>).ok
            THEN main_mulLoop(consume(r.m, <<"/">>).m, n, "DIV")
            ELSE M(r.m, n)
        then(r) == next(r, main_operand(r, lhs, kind))
    IN  then(main_unary(m))

main_addLoop(m, lhs, kind) ==
    LET next(r, n) ==
            IF consume(r.m, <<"+">>).ok THEN main_addLoop(consume(r.m, <<"+">>).m, n, "ADD")
            ELSE IF consume(r.m, <<"-">>).ok
            THEN main_addLoop(consume(r.m, <<"-">>).m, n, "SUB")
            ELSE M(r.m, n)
        then(r) == next(r, main_operand(r, lhs, kind))
    IN  then(main_mulLoop(m, NilMain, ""))

main_relationalLoop(m, lhs, kind) ==
    LET again(c, n, k) == main_relationalLoop(c.m, n, k)
        next(r, n) ==
            IF consume(r.m, <<"<">>).ok THEN again(consume(r.m, <<"<">>), n, "LESS")
            ELSE IF consume(r.m, <<"<", "=">>).ok
            THEN again(consume(r.m, <<"<", "=">>), n, "LESS EQL")
            ELSE IF consume(r.m, <<">">>).ok THEN again(consume(r.m, <<">">>), n, "GREATER")
            ELSE IF consume(r.m, <<">", "=">>).ok
            THEN again(consume(r.m, <<">", "=">>), n, "GREATER EQL")
            ELSE M(r.m, n)
        then(r) == next(r, main_operand(r, lhs, kind))
    IN  then(main_addLoop(m, NilMain, ""))

main_equalityLoop(m, lhs, kind) ==
    LET again(c, n, k) == main_equalityLoop(c.m, n, k)
        next(r, n) ==
            IF consume(r.m, <<"=", "=">>).ok THEN again(consume(r.m, <<"=", "=">>), n, "EQL")
            ELSE IF consume(r.m, <<"!", "=">>).ok
            THEN again(consume(r.m, <<"!", "=">>), n, "NOT EQL")
            ELSE M(r.m, n)
        then(r) == next(r, main_operand(r, lhs, kind))
    IN  then(main_relationalLoop(m, NilMain, ""))

main_expr(m) == main_equalityLoop(m, NilMain, "")

RECURSIVE stmt(_), main_ifStmt(_)

\* stmt and ifStmt: if consume(";") || consume("\n") {}
terminated(m) ==
    IF consume(m, <<";">>).ok THEN consume(m, <<";">>).m ELSE consume(m, <<"\n">>).m

main_ifStmt(m) ==
    LET node == newNode("IF", NilMain, NilMain)
        done(q, lhs, rhs) == M(terminated(q), [node EXCEPT !.lhs = lhs, !.rhs = rhs])
        body(lhs, r) == done(expect(r.m, <<"}">>), lhs, r.node)
        opened(q, lhs) ==
            IF q.halted THEN M(q, NilMain)
            ELSE IF consume(q, <<"}">>).ok THEN done(consume(q, <<"}">>).m, lhs, NilMain)
            ELSE body(lhs, stmt(consume(q, <<"\n">>).m))
        then(lhs) == opened(expect(lhs.m, <<"{">>), lhs.node)
    IN  then(main_expr(expectKind(m, "if")))

stmt(m) ==
    LET done(q, n) == M(terminated(q), n)
        assigned(n, e) == done(e.m, newNode("ASSIGN", n.node, e.node))
        returned(e) == done(e.m, newNode("RETURN", e.node, NilMain))
        then(n) ==
            IF consume(n.m, <<"=">>).ok THEN assigned(n, main_expr(consume(n.m, <<"=">>).m))
            ELSE done(n.m, n.node)
    IN  IF m.tokens[1].kind = "if" THEN main_ifStmt(m)
        ELSE IF consume(m, <<";">>).ok THEN M(consume(m, <<";">>).m, NilMain)
        ELSE IF consume(m, <<"\n">>).ok THEN M(consume(m, <<"\n">>).m, NilMain)
        ELSE IF consumeKind(m, "return").ok
        THEN returned(main_expr(consumeKind(m, "return").m))
        ELSE then(main_expr(m))

main_atEof == mainTokens[1].kind = "EOF"

(***************************************************************************)
(* Programs for the parser of parse.go, as the texts of their tokens.      *)
(***************************************************************************)
RECURSIVE Flat(_), TokensFrom(_)

\* the texts ts, one after the other
Flat(ts) == IF ts = <<>> THEN <<>> ELSE Head(ts) \o Flat(Tail(ts))

\* the tokens tokenize gives for the source Flat(ts)
TokensFrom(ts) ==
    IF ts = <<>> THEN <<newToken("EOF", <<>>, <<>>)>>
    ELSE IF Head(ts)[1] \notin OneCharOperators /\ IsSpace(Head(ts)[1])
    THEN TokensFrom(Tail(ts))
    ELSE LET text == Head(ts)
             kind == IF text = TokenReturn THEN "return"
                     ELSE IF text = TokenIf THEN "if"
                     ELSE IF isAlpha(text[1]) \/ text[1] = "_" THEN "IDENTIFIER"
                     ELSE IF IsDigit(text[1]) THEN "NUMBER"
                     ELSE "RESERVED"
             token == IF kind = "NUMBER"
                      THEN [newToken(kind, Itoa(strtoi(text).val), Flat(ts)) EXCEPT
                              !.val = strtoi(text).val]
                      ELSE newToken(kind, text, Flat(ts))
         IN  <<token>> \o TokensFrom(Tail(ts))

\* the most binary operators in an expression, and statements in a program
MaxOps == 2
MaxStmts == 3

Names == {<<"e">>, <<"t">>, <<"u">>}

Atoms == {<<<<"e">>>>, <<<<"1">>>>}

BinaryOperators ==
    {<<"+">>, <<"-">>, <<"*">>, <<"/">>, <<"<">>, <<">">>} \cup TwoCharOperators

\* an operand followed by n operators, each with its operand
RECURSIVE Chains(_)
Chains(n) ==
    IF n = 0 THEN Atoms
    ELSE { c \o <<op>> \o a : c \in Chains(n - 1), op \in BinaryOperators, a \in Atoms }

Parenthesised ==
    { <<<<"(">>, <<"e">>, o1, <<"1">>, <<")">>, o2, <<"t">>>> : o1, o2 \in BinaryOperators }
    \cup { <<<<"e">>, o1, <<"(">>, <<"1">>, o2, <<"t">>, <<")">>>> : o1, o2 \in BinaryOperators }
    \cup { <<<<"-">>, <<"e">>, o, <<"t">>>> : o \in BinaryOperators }
    \cup { <<<<"e">>, o, <<"-">>, <<"t">>>> : o \in BinaryOperators }
    \cup { <<<<"+">>, <<"e">>>>, <<<<"-">>, <<"(">>, <<"e">>, <<"+">>, <<"1">>, <<")">>>>,
           <<<<"-">>, <<"-">>, <<"e">>>>, <<<<"(">>, <<"e">>>>, <<<<"e">>, <<"*">>>> }

Expressions == UNION { Chains(n) : n \in 0..MaxOps } \cup Parenthesised

Statements ==
    { <<x, <<"=">>, <<"1">>, <<";">>>> : x \in Names }
    \cup { <<x, <<"=">>, y, <<"+">>, <<"e">>, <<"\n">>>> : x, y \in {<<"t">>, <<"u">>} }
    \cup { <<TokenReturn, <<" ">>, <<"u">>, <<";">>>>,
           <<TokenIf, <<" ">>, <<"e">>, <<"{">>, <<"t">>, <<"=">>, <<"0">>, <<"}">>, <<"\n">>>>,
           <<TokenIf, <<" ">>, <<"u">>, <<"{">>, <<"}">>>>,
           <<<<";">>>> }

MainSources ==
    Expressions \cup { Flat(p) : p \in SeqsUpTo(Statements, MaxStmts) }

\* main: the tokens of the source are handed to the parser
ProgramBegin ==
    /\ mainStage = "idle" /\ lexState = "idle"
    /\ \E ts \in MainSources :
          /\ userInput' = Flat(ts)
          /\ toks' = TokensFrom(ts)
          /\ mainTokens' = TokensFrom(ts)
    /\ input' = <<>>
    /\ lexState' = "done"
    /\ mainStage' = "program"
    /\ UNCHANGED <<locals, mainCode, parserVars, errorVars>>

\* program: the next statement; a nil statement is left out of code
ProgramStmt ==
    /\ mainStage = "program"
    /\ ~main_atEof
    /\ LET then(s) ==
               IF s.m.halted
               THEN /\ mainStage' = "exit"
                    /\ UNCHANGED <<mainTokens, locals, mainCode>>
               ELSE /\ mainTokens' = s.m.tokens
                    /\ locals' = s.m.locals
                    /\ mainCode' = IF s.node = NilMain THEN mainCode
                                   ELSE Append(mainCode, s.node)
                    /\ UNCHANGED mainStage
       IN  then(stmt(Main))
    /\ UNCHANGED <<lexVars, parserVars, errorVars>>

\* program: the tokens are used up
ProgramReturn ==
    /\ mainStage = "program"
    /\ main_atEof
    /\ mainStage' = "returned"
    /\ UNCHANGED <<mainTokens, locals, mainCode, lexVars, parserVars, errorVars>>

MainNext ==
    \/ ProgramBegin
    \/ ProgramStmt
    \/ ProgramReturn

SpecMain == Init /\ [][MainNext]_vars

(***************************************************************************)
(* Frame offsets of the local variables (parse.go).                        *)
(***************************************************************************)
RECURSIVE Offsets(_), IdentifiersOf(_)

\* the offsets of the variable nodes of a tree, in the order of the source
Offsets(n) ==
    IF n.kind = "nil" THEN <<>>
    ELSE IF n.kind = "Local Var" THEN <<n.offset>>
    ELSE IF n.kind = "NUM" THEN <<>>
    ELSE Offsets(n.lhs) \o Offsets(n.rhs)

RECURSIVE CodeOffsets(_)
CodeOffsets(c) == IF c = <<>> THEN <<>> ELSE Offsets(Head(c)) \o CodeOffsets(Tail(c))

\* the names of the identifier tokens of ts, in order
IdentifiersOf(ts) ==
    IF ts = <<>> THEN <<>>
    ELSE (IF Head(ts).kind = "IDENTIFIER" THEN <<Head(ts).str>> ELSE <<>>)
         \o IdentifiersOf(Tail(ts))

\* the tokens the parser has used
Consumed == SubSeq(toks, 1, Len(toks) - Len(mainTokens))

\* the position at which name occurs first in names
FirstAt(names, name) == CHOOSE i \in 1..Len(names) :
    names[i] = name /\ \A j \in 1..(i - 1) : names[j] # name

\* the names of names, each once, in the order of their first occurrence
RECURSIVE Declared(_)
Declared(names) ==
    IF names = <<>> THEN <<>>
    ELSE LET before == Declared(SubSeq(names, 1, Len(names) - 1))
             last == names[Len(names)]
         IN  IF \E i \in 1..Len(before) : before[i] = last THEN before
             ELSE Append(before, last)

OperatorKind(op) ==
    CASE op = <<"=", "=">> -> "EQL"
      [] op = <<"!", "=">> -> "NOT EQL"
      [] op = <<"<">> -> "LESS"
      [] op = <<"<", "=">> -> "LESS EQL"
      [] op = <<">">> -> "GREATER"
      [] op = <<">", "=">> -> "GREATER EQL"
      [] op = <<"+">> -> "ADD"
      [] op = <<"-">> -> "SUB"
      [] op = <<"*">> -> "MUL"
      [] op = <<"/">> -> "DIV"

\* no expression of MainSources writes the number 0, so a subtraction from
\* the number 0 is the node of a unary minus
IsNegation(n) == n.kind = "SUB" /\ n.lhs = newNodeNum(0)

\* the level of the grammar that builds the node: 1 equality, 2 relational,
\* 3 add, 4 mul, 5 unary, 6 primary
Level(n) ==
    IF n.kind \in {"EQL", "NOT EQL"} THEN 1
    ELSE IF n.kind \in {"LESS", "LESS EQL", "GREATER", "GREATER EQL"} THEN 2
    ELSE IF IsNegation(n) THEN 5
    ELSE IF n.kind \in {"ADD", "SUB"} THEN 3
    ELSE IF n.kind \in {"MUL", "DIV"} THEN 4
    ELSE 6

RECURSIVE Subtrees(_), Infix(_)

Subtrees(n) ==
    IF n.kind \in {"nil", "NUM", "Local Var"} THEN {n}
    ELSE {n} \cup Subtrees(n.lhs) \cup Subtrees(n.rhs)

\* the texts of the tokens an expression tree without parentheses stands for
Infix(n) ==
    IF n.kind = "nil" THEN <<>>
    ELSE IF n.kind = "NUM" THEN <<Itoa(n.val)>>
    ELSE IF n.kind = "Local Var" THEN <<locals[n.offset \div 8].name>>
    ELSE IF IsNegation(n) THEN <<<<"-">>>> \o Infix(n.rhs)
    ELSE Infix(n.lhs)
         \o <<CHOOSE op \in BinaryOperators : OperatorKind(op) = n.kind>>
         \o Infix(n.rhs)

\* the texts of the tokens of the source, without the EOF token
Texts == [i \in 1..(Len(toks) - 1) |-> toks[i].str]

\* the source is one expression of operands, binary operators and signs
PlainExpression ==
    /\ Len(toks) > 1
    /\ \A i \in 1..(Len(toks) - 1) :
          \/ toks[i].kind \in {"IDENTIFIER", "NUMBER"}
          \/ toks[i].kind = "RESERVED" /\ toks[i].str \in BinaryOperators

\* the source has the form of tokens, an operator standing for any operator
HasForm(form) ==
    /\ Len(Texts) = Len(form)
    /\ \A i \in 1..Len(form) :
          IF form[i] = "op" THEN Texts[i] \in BinaryOperators ELSE Texts[i] = <<form[i]>>

\* C13: an expression without parentheses parses to the one tree that reads
\* as the source from left to right and in which the right operand of a
\* binary operator is built by a higher level and the left operand by the
\* same or a higher level (equality < relational < add < mul < unary <
\* primary), so that a level binds tighter than the levels below it and
\* associates to the left; a parenthesised expression is an operand
\* whatever its operator; and a unary minus gives the node 0 - operand, its
\* operand a primary.
C13_PrecedenceAndAssociativity ==
    mainStage = "returned" =>
        /\ PlainExpression =>
              /\ Len(mainCode) = 1
              /\ Infix(mainCode[1]) = (IF Texts[1] = <<"+">> THEN Tail(Texts) ELSE Texts)
              /\ \A n \in Subtrees(mainCode[1]) :
                    /\ Level(n) \in 1..4 =>
                          /\ Level(n.rhs) > Level(n)
                          /\ Level(n.lhs) >= Level(n)
                    /\ Level(n) = 5 => Level(n.rhs) = 6
        /\ HasForm(<<"(", "e", "op", "1", ")", "op", "t">>) =>
              /\ Len(mainCode) = 1
              /\ mainCode[1].kind = OperatorKind(Texts[6])
              /\ mainCode[1].lhs.kind = OperatorKind(Texts[3])
              /\ Infix(mainCode[1].lhs) = <<Texts[2], Texts[3], Texts[4]>>
              /\ Infix(mainCode[1].rhs) = <<Texts[7]>>
        /\ HasForm(<<"e", "op", "(", "1", "op", "t", ")">>) =>
              /\ Len(mainCode) = 1
              /\ mainCode[1].kind = OperatorKind(Texts[2])
              /\ mainCode[1].rhs.kind = OperatorKind(Texts[5])
              /\ Infix(mainCode[1].lhs) = <<Texts[1]>>
              /\ Infix(mainCode[1].rhs) = <<Texts[4], Texts[5], Texts[6]>>
        /\ HasForm(<<"-", "(", "e", "+", "1", ")">>) =>
              /\ Len(mainCode) = 1
              /\ mainCode[1].kind = "SUB"
              /\ mainCode[1].lhs = newNodeNum(0)
              /\ mainCode[1].rhs.kind = "ADD"
        /\ HasForm(<<"-", "e", "op", "t">>) =>
              /\ mainCode[1].lhs.kind = "SUB"
              /\ mainCode[1].lhs.lhs = newNodeNum(0)
              /\ mainCode[1].lhs.rhs.kind = "Local Var"

\* e < 1 * e, e - 1 - e and the like: a multiplication as the right operand
\* of a comparison, or a subtraction as the left operand of a subtraction
C13_Witness ==
    /\ mainStage = "returned"
    /\ PlainExpression
    /\ Len(mainCode) = 1
    /\ mainCode[1].kind = "LESS"
    /\ mainCode[1].rhs.kind = "MUL"
    /\ mainCode[1].lhs.kind = "Local Var"

(***************************************************************************)
(* errorAt of package parse, over the characters of the source.            *)
(***************************************************************************)
\* var filename string, assigned nowhere in the package
filename == <<>>

\* the exit status of a Go program that panics
Panicked == 2

\* the longest source handed to errorAt
MaxSource == 4

SourceChars == {"a", "\t", "\n"}

SourceTexts == SeqsUpTo(SourceChars, MaxSource)

\* s[i:] for every i
Suffixes(s) == { Drop(s, i) : i \in 0..Len(s) }

\* for _, c := range userInput[:len(userInput)-len(rest)]: the line number
\* and the start index after the characters from i on
RECURSIVE scanPrefix_TabAsOne(_, _, _, _)
scanPrefix_TabAsOne(prefix, i, lineNumber, startIndex) ==
    IF i > Len(prefix) THEN [lineNumber |-> lineNumber, startIndex |-> startIndex]
    ELSE IF prefix[i] = "\n" THEN scanPrefix_TabAsOne(prefix, i + 1, lineNumber + 1, 0)
    ELSE scanPrefix_TabAsOne(prefix, i + 1, lineNumber, startIndex + 1)

RECURSIVE scanPrefix(_, _, _, _)
scanPrefix(prefix, i, lineNumber, startIndex) ==
    IF i > Len(prefix) THEN [lineNumber |-> lineNumber, startIndex |-> startIndex]
    ELSE IF prefix[i] = "\n" THEN scanPrefix(prefix, i + 1, lineNumber + 1, 0)
    ELSE IF prefix[i] = "\t" THEN scanPrefix(prefix, i + 1, lineNumber, startIndex + 4)
    ELSE scanPrefix(prefix, i + 1, lineNumber, startIndex + 1)

\* strings.Split(s, "\n"), the line being gathered in line
RECURSIVE Split(_, _)
Split(s, line) ==
    IF s = <<>> THEN <<line>>
    ELSE IF Head(s) = "\n" THEN <<line>> \o Split(Tail(s), <<>>)
    ELSE Split(Tail(s), Append(line, Head(s)))

\* the lines written for the lines from i on: the header file:line: and the
\* source line, then the caret after a blank padded to indent+startIndex
RECURSIVE printLines(_, _, _)
printLines(lines, i, at) ==
    IF i > Len(lines) THEN <<>>
    ELSE (IF i = at.lineNumber
          THEN LET indent == Len(filename) + 1 + Len(Itoa(at.lineNumber)) + 2
               IN  <<[file |-> filename, lineNumber |-> at.lineNumber, line |-> lines[i],
                      width |-> indent + at.startIndex, column |-> at.startIndex]>>
          ELSE <<>>)
         \o printLines(lines, i + 1, at)

\* a caller hands errorAt the rest of the source, or a text longer than
\* the source
ErrorAtCall ==
    /\ errorStage = "idle" /\ lexState = "idle" /\ mainStage = "idle" /\ stage = "start"
    /\ \E s \in SourceTexts :
          /\ userInput' = s
          /\ errorAtRest' \in Suffixes(s) \cup {Append(s, "a")}
    /\ errorStage' = "called"
    /\ UNCHANGED <<input, toks, lexState, stderr, exitStatus, parserVars, mainVars>>

\* errorAt; the slice expression panics when rest is longer than userInput
ErrorAt ==
    /\ errorStage = "called"
    /\ IF Len(errorAtRest) > Len(userInput)
       THEN /\ stderr' = <<>>
            /\ exitStatus' = Panicked
       ELSE /\ stderr' = printLines(Split(userInput, <<>>), 1,
                   scanPrefix(SubSeq(userInput, 1, Len(userInput) - Len(errorAtRest)), 1, 1, 0))
            /\ exitStatus' = 1
    /\ errorStage' = "exit"
    /\ UNCHANGED <<errorAtRest, lexVars, parserVars, mainVars>>

ErrorAtNext ==
    \/ ErrorAtCall
    \/ ErrorAt

SpecErrorAt == Init /\ [][ErrorAtNext]_vars

\* what errorAt is to report for the source and the rest it was handed
Expected ==
    LET prefix == SubSeq(userInput, 1, Len(userInput) - Len(errorAtRest))
        newlines == { i \in 1..Len(prefix) : prefix[i] = "\n" }
        last == IF newlines = {} THEN 0
                ELSE CHOOSE i \in newlines : \A j \in newlines : j <= i
        after == (last + 1)..Len(prefix)
        ends == { i \in (last + 1)..Len(userInput) : userInput[i] = "\n" }
        stop == IF ends = {} THEN Len(userInput) + 1
                ELSE CHOOSE i \in ends : \A j \in ends : i <= j
    IN  [lineNumber |-> 1 + Cardinality(newlines),
         column |-> 4 * Cardinality({ i \in after : prefix[i] = "\t" })
                    + Cardinality({ i \in after : prefix[i] # "\t" }),
         line |-> SubSeq(userInput, last + 1, stop - 1)]

ErrorAtReported ==
    errorStage = "exit" =>
        /\ exitStatus # 0
        /\ errorAtRest \in Suffixes(userInput) =>
              /\ Len(stderr) = 1
              /\ stderr[1].lineNumber = Expected.lineNumber
              /\ stderr[1].column = Expected.column
              /\ stderr[1].line = Expected.line

\* C14: handed a suffix of the source, errorAt reports the line number 1 +
\* the newlines of the consumed prefix and the column that counts 4 for a
\* tab and 1 for any other character after the last newline of the prefix,
\* prints the one source line of that number, and ends the process with a
\* status other than 0; nothing runs after it.
C14_ErrorAtReportsAndExits ==
    /\ []ErrorAtReported
    /\ [][errorStage # "exit"]_vars

\* a diagnostic on the second line, behind a tab and a letter
C14_Witness ==
    /\ errorStage = "exit"
    /\ errorAtRest # <<>>
    /\ Len(stderr) = 1
    /\ stderr[1].lineNumber = 2
    /\ stderr[1].column = 5
    /\ exitStatus = 1

(***************************************************************************)
(* Declarations with initializers (package parse).                         *)
(***************************************************************************)
\* the variable nodes of the tree n
VariablesOf(n) == { m \in NodesOf(n) : m.Kind = "VARIABLE" }

\* the first token of the simple statement that holds the token at p
StatementStart(p) ==
    LET before == { q \in 1..(p - 1) : tokens[q].kind \in {"\n", ";", "{", "for"} }
    IN  IF before = {} THEN 1 ELSE 1 + CHOOSE q \in before : \A o \in before : o <= q

\* the names that the statement holding the token at p declares in front of p
DeclaredBy(p) ==
    LET start == StatementStart(p)
        shorts == { c \in start..(p - 1) : tokens[c].kind = ":=" }
    IN  IF tokens[start].kind = "var" /\ start + 1 < p THEN {tokens[start + 1].str}
        ELSE { tokens[i].str : i \in { j \in start..(p - 1) :
                 /\ tokens[j].kind = "IDENTIFIER"
                 /\ \E c \in shorts : j < c } }

\* C15: in a var statement with an initializer and in a short variable
\* declaration, a reference in an initializer to a name the statement
\* declares is the variable the statement declared, in the scope of the
\* statement, and the undefined-variable diagnostic is never given for a
\* name the statement declares.
C15_DeclaredBeforeInitializer ==
    /\ \A n \in AllNodes :
          (n.Kind \in {"LOCAL VAR STMT", "SHORT VAR DECL STMT"} /\ Len(n.Children) = 2) =>
              \A d \in VariablesOf(n.Children[1]) : \A r \in VariablesOf(n.Children[2]) :
                  Name(r) = Name(d) =>
                      /\ r.Var = d.Var
                      /\ r.Var.env = Innermost(d.from)
    /\ diag = DiagUndefined => tokens[errorRest].str \notin DeclaredBy(errorRest)

\* a declaration in a block whose initializer names the variable it
\* declares, while the function holds a variable of that name
C15_Witness ==
    /\ stage = "returned"
    /\ \E n \in AllNodes :
          /\ n.Kind \in {"LOCAL VAR STMT", "SHORT VAR DECL STMT"}
          /\ Len(n.Children) = 2
          /\ \E d \in VariablesOf(n.Children[1]) : \E r \in VariablesOf(n.Children[2]) :
                /\ Name(r) = Name(d)
                /\ r.Var.env = Innermost(d.from)
                /\ \E e \in Range(ScopeAt(r.from)) :
                      e # r.Var.env /\ HasVar(envs[e], Name(r))

(***************************************************************************)
(* The form simpleStmt parses a statement as (package parse).              *)
(***************************************************************************)
\* the form the tokens from p to the next newline or ; call for: that of
\* the first = or := among them, an expression when there is none
ExpectedForm(p) ==
    LET ends == { i \in p..Len(tokens) : tokens[i].kind \in {"\n", ";"} }
        end == IF ends = {} THEN Len(tokens) + 1
               ELSE CHOOSE i \in ends : \A j \in ends : i <= j
        marks == { i \in p..(end - 1) : tokens[i].kind \in {"=", ":="} }
        first == CHOOSE i \in marks : \A j \in marks : i <= j
    IN  IF end = p THEN "none"
        ELSE IF marks # {} THEN (IF tokens[first].kind = "=" THEN "assign" ELSE "short")
        ELSE IF ends = {} THEN "panic"
        ELSE "expr"

\* the statement at the cursor of q parsed as the form
ParsedAs(q, form) ==
    CASE form = "none" -> R(q, NilNode)
      [] form = "assign" -> binaryStmt(exprList(q), "=", "ASSIGN")
      [] form = "short" -> binaryStmt(localVarList(q), ":=", "SHORT VAR DECL STMT")
      [] form = "expr" -> exprStmt(expr(q))
      [] form = "panic" -> R(Halt(q, DiagPanic), NilNode)

FormByScan(q) == simpleStmt(q) = ParsedAs(q, ExpectedForm(q.pos))

\* forStmt: the parser state in front of the third clause of the head that
\* begins at the cursor of q, halted when the head has no third clause
ForUpdate(q) ==
    LET at(cond) == Expect(cond.ps, ";")
        then(s) ==
            IF s.ps.halted \/ Test(s.ps, "{") THEN [s.ps EXCEPT !.halted = TRUE]
            ELSE at(expr(Expect(s.ps, ";")))
    IN  then(simpleStmt(q))

\* C16: wherever localStmt or forStmt calls simpleStmt, the statement is
\* parsed as the form that the tokens from its first token to the next
\* newline or ; call for: as an expression statement exactly when no = and
\* no := is among them, else as the form of the first of these, also when
\* that token stands in a block that follows on the line.
C16_FormChosenByScan ==
    StmtNext("local") =>
        /\ (~Test(Cur, "if") /\ ~Test(Cur, "for") /\ ~Test(Cur, "var")
              /\ ~Test(Cur, "return")) => FormByScan(Cur)
        /\ (Test(Cur, "for") /\ ~Test(Succ(Cur), "{")) =>
              /\ FormByScan(Succ(stepIn(Cur)))
              /\ ~ForUpdate(Succ(stepIn(Cur))).halted =>
                    FormByScan(ForUpdate(Succ(stepIn(Cur))))

\* for a {a = 1}: the head was parsed as an assignment for the = in the
\* block, and the parser has halted in front of the block
C16_Witness ==
    /\ stage = "exit"
    /\ diag = DiagExpect("=")
    /\ errorRest \in 1..Len(tokens)
    /\ tokens[errorRest].kind = "{"
    /\ \E p \in 2..(errorRest - 1) :
          /\ tokens[p - 1].kind = "for"
          /\ ExpectedForm(p) = "assign"
          /\ \A i \in p..errorRest : tokens[i].kind # "="

====
